---- MODULE Spec2Model ----
(***************************************************************************)
(* Model of the fmail client-side automation engine: the WorkflowService   *)
(* coordinator (debounced action tracking, suggestion lifecycle), the      *)
(* WorkflowExecutor rule engine, the SuggestionUIHandler and the part of   *)
(* the email store the engine touches.                                     *)
(***************************************************************************)
EXTENDS Integers, Sequences, FiniteSets, TLC

\* ------------------------------------------------------------------ bounds
MaxEvents == 3        \* ActionEvents tracked in one behaviour
MaxSuggestions == 2   \* inbound workflow_suggestion messages in one behaviour
MaxHooks == 1         \* hooks added in one behaviour
MaxSimulatorStarts == 2   \* timers set by startSimulation in one behaviour
MaxExecHooks == 2     \* hooks added in one behaviour while execution is explored
MaxRuns == 1          \* successful executions of one hook by email triggers
MaxExecEvents == 1    \* ActionEvents tracked in one behaviour while execution is explored
MaxApplierHooks == 2  \* hooks added in one behaviour while the applier is explored
Tick == 250           \* granularity of the passage of time, in ms

\* --------------------------------------------------------------- constants
DEBOUNCE_DELAY == 500
maxReconnectAttempts == 5
baseDelay == 1000        \* attemptReconnect: the factor of the delay, ms
maxDelay == 30000        \* attemptReconnect: the largest delay, ms

Users == {"user123"}
\* the users while a change of user is explored
SwitchUsers == {"user123", "user456"}
\* the queues EmailSimulator.initialize() leaves for the simulation
InitialQueues == {<<>>, <<1>>}
EmailIds == {1}
\* the emails of the store: the one above and one no gesture or handler names
StoreIds == EmailIds \cup {2}
\* the custom emails handed to addToPendingQueue, none of them a loaded one
CustomEmails == StoreIds \ {1}
SuggestionIds == {"s1", "s2"}
TriggerEvents == {"email_received", "email_closed", "user_action"}

\* UserAction["action"]
ActionKinds ==
  {"archive", "delete", "star", "unstar", "open", "close", "mark_read",
   "mark_unread", "add_label", "remove_label", "move_to_inbox",
   "move_to_spam", "move_to_trash", "move_to_archive", "undo_archive",
   "undo_delete", "undo_star", "undo_unstar", "undo_mark_read",
   "undo_mark_unread", "undo_add_label", "undo_remove_label",
   "undo_move_to_inbox", "undo_move_to_spam", "undo_move_to_trash",
   "undo_move_to_archive"}

\* the kinds the modelled gestures track
TrackedKinds == {"star", "open"}

\* hook bodies (function_code) the model installs
Codes == {"email.markRead()", "email.star()", "throw"}

\* the hooks authored directly while tracking is explored
AuthoredHooks ==
  {<<"user_action", "email.markRead()">>, <<"user_action", "throw">>,
   <<"email_received", "email.star()">>}
\* the hooks authored while execution is explored
ExecHooks ==
  {<<"email_received", "email.star()">>, <<"email_received", "email.star(); throw">>,
   <<"email_closed", "email.star()">>, <<"user_action", "email.star()">>}
\* the bodies of the email_received hooks authored while the applier is explored
ApplierCodes ==
  {"email.archive(); email.star(); email.markRead(); email.moveToSpam()",
   "email.delete(); email.unstar(); email.markUnread(); email.moveToTrash()",
   "email.addLabel('Work'); email.removeLabel('important')",
   "email.addLabel('todo')",
   "email.star(); email.addLabel(':x'); email.archive()",
   "email.addLabel(':x'); email.removeLabel('todo')",
   "email.addLabel(''); email.star()",
   "email.removeLabel(undefined); email.archive()",
   "if (!email.is_starred) email.star()",
   "email.star(); throw",
   ""}
\* the bodies of the hooks authored while saving and loading are explored
PersistedCodes == {"email.star()", "throw"}
\* the hooks authored while the events that automation tracks are explored
FeedbackHooks ==
  {<<"user_action", "email.markRead()">>,
   <<"user_action", "email.markUnread(); email.markRead()">>,
   <<"email_received", "email.markRead()">>}
\* the bodies the backend generates while the suggestion lifecycle is explored
GeneratedCodes == {"email.star()", "throw"}

VARIABLES
  tracker,                 \* WorkflowService.tracker: "null" or the user it was built for
  userId,                  \* WorkflowService.userId: "null" or a user
  trackerSuggestionCb,     \* WorkflowTracker.onSuggestionCallback: "none", "plain" or "ui"
  trackerConfirmationCb,   \* WorkflowTracker.onConfirmationCallback: "none" or "ui"
  wsState,                 \* WorkflowTracker.ws: "none", "connecting", "open" or "closed"
  reconnectAttempts,       \* WorkflowTracker.reconnectAttempts
  reconnectPending,        \* a reconnect timer of attemptReconnect is outstanding
  reconnectDelays,         \* history: the delays of the reconnect timers set since the
                           \* tracker was built or its socket last opened
  droppedTracker,          \* the WorkflowTracker that disconnect() was last called on,
                           \* which the handlers of its socket and its timers still hold
  pendingActions,          \* WorkflowService.pendingActions
  debounceTimer,           \* WorkflowService.debounceTimer: 0 (null) or a timer handle
  timers,                  \* outstanding setTimeout handles -> remaining ms
  nextSeq,                 \* number of ActionEvents accepted so far (their identity)
  activeSuggestionIds,     \* WorkflowService.activeSuggestionIds, in insertion order
  suggestionCleanupCallback, \* "none" or "ui"
  hooks,                   \* WorkflowExecutor.hooks
  nextHookId,              \* number of hooks created so far
  stored,                  \* localStorage["fmail_workflows"]: the hook list last saved
  lastExec,                \* history: the execute call made by the latest step
  unread,                  \* store: emails[id].unread
  starred,                 \* store: emails[id].starred
  location,                \* store: emails[id].location
  tags,                    \* store: emails[id].tags
  uiInitialized,           \* SuggestionUIHandler.initialized
  activeSuggestionToasts,  \* SuggestionUIHandler.activeSuggestionToasts: suggestion id -> toast id
  toasts,                  \* toast manager: suggestion toasts by toast id
  sentSeqs,                \* history: the events handed to WorkflowTracker.trackAction so far
  lastFlush,               \* history: the most recent processPendingActions that sent a batch
  rejected,                \* history: the ids rejected since they were last suggested
  lastOp,                  \* history: the steps of the most recent suggestion or hook operation
  isInitialized,           \* EmailSimulator.isInitialized
  pendingEmails,           \* EmailSimulator.pendingEmails
  simulationInterval,      \* EmailSimulator.simulationInterval: a timer handle, 0 for null
  simulatorTimers,         \* the EmailSimulator timers set and neither fired nor cleared
  simulatorHandles,        \* the number of setTimeout calls of the EmailSimulator
  delivered,               \* history: the emails handed to addEmails and handleIncomingEmail
  simulationStarted,       \* history: startSimulation was called and stopSimulation not since
  startedWith              \* history: the emails pending at the latest startSimulation call

vars == <<tracker, userId, trackerSuggestionCb, trackerConfirmationCb, wsState, reconnectAttempts,
          reconnectPending, reconnectDelays, droppedTracker, pendingActions,
          debounceTimer,
          timers, nextSeq, activeSuggestionIds, suggestionCleanupCallback,
          hooks, nextHookId, stored, lastExec, unread, starred, location, tags,
          uiInitialized,
          activeSuggestionToasts,
          toasts, sentSeqs, lastFlush, rejected, lastOp,
          isInitialized, pendingEmails, simulationInterval, simulatorTimers,
          simulatorHandles, delivered, simulationStarted, startedWith>>

NoOp == [op |-> "none"]
NoTimers == [h \in {} |-> 0]
NoEmail == [id |-> 0, unread |-> FALSE, starred |-> FALSE]
NoExec ==
  [call |-> "none", trigger |-> "none", email |-> NoEmail, hooks |-> <<>>,
   results |-> <<>>, hooksBefore |-> <<>>, trace |-> <<>>, applied |-> <<>>,
   ops |-> <<>>, feedback |-> <<>>]
\* the EmailSimulator after construction
NewSimulator ==
  [initialized |-> FALSE, pending |-> <<>>, interval |-> 0, timers |-> {},
   handles |-> 0, delivered |-> <<>>, started |-> FALSE, with |-> {}]
\* no tracker was disconnected yet
NoTracker == [ws |-> "none", attempts |-> 0, rpending |-> FALSE, delays |-> <<>>]
NoFlush ==
  [timer |-> 0, batch |-> <<>>, sent |-> <<>>, sentBefore |-> {},
   analyzed |-> <<>>, executed |-> <<>>, early |-> FALSE, ws |-> "none"]

Init ==
  /\ tracker = "null"
  /\ userId = "null"
  /\ trackerSuggestionCb = "none"
  /\ trackerConfirmationCb = "none"
  /\ wsState = "none"
  /\ reconnectAttempts = 0
  /\ reconnectPending = FALSE
  /\ reconnectDelays = <<>>
  /\ droppedTracker = NoTracker
  /\ pendingActions = <<>>
  /\ debounceTimer = 0
  /\ timers = NoTimers
  /\ nextSeq = 0
  /\ activeSuggestionIds = <<>>
  /\ suggestionCleanupCallback = "none"
  /\ hooks = <<>>
  /\ nextHookId = 0
  /\ stored = <<>>
  /\ lastExec = NoExec
  /\ unread \in {f \in [StoreIds -> BOOLEAN] : \A e \in StoreIds \ EmailIds : f[e]}
  /\ starred = [e \in StoreIds |-> FALSE]
  /\ location = [e \in StoreIds |-> "inbox"]
  /\ tags = [e \in StoreIds |-> <<"important">>]
  /\ uiInitialized = FALSE
  /\ activeSuggestionToasts = <<>>
  /\ toasts = <<>>
  /\ sentSeqs = {}
  /\ lastFlush = NoFlush
  /\ rejected = {}
  /\ lastOp = NoOp
  /\ isInitialized = NewSimulator.initialized
  /\ pendingEmails = NewSimulator.pending
  /\ simulationInterval = NewSimulator.interval
  /\ simulatorTimers = NewSimulator.timers
  /\ simulatorHandles = NewSimulator.handles
  /\ delivered = NewSimulator.delivered
  /\ simulationStarted = NewSimulator.started
  /\ startedWith = NewSimulator.with

\* ------------------------------------------------------------- helpers
Min(a, b) == IF a <= b THEN a ELSE b
MinRem(t) == CHOOSE m \in {t[h] : h \in DOMAIN t} : \A h \in DOMAIN t : m <= t[h]

\* setTimeout(cb, ms): a new handle h with ms remaining
SetTimeout(t, h, ms) == [k \in DOMAIN t \cup {h} |-> IF k = h THEN ms ELSE t[k]]
\* clearTimeout(h): no effect on a handle that fired or never existed
ClearTimeout(t, h) == [k \in DOMAIN t \ {h} |-> t[k]]

\* The coordinator's fields, threaded through the calls of one handler.
Svc ==
  [tracker |-> tracker, userId |-> userId, cb |-> trackerSuggestionCb,
   ccb |-> trackerConfirmationCb,
   ws |-> wsState, attempts |-> reconnectAttempts, rpending |-> reconnectPending,
   delays |-> reconnectDelays, dropped |-> droppedTracker,
   pending |-> pendingActions, dt |-> debounceTimer, timers |-> timers,
   seq |-> nextSeq]

SetSvc(st) ==
  /\ tracker' = st.tracker
  /\ userId' = st.userId
  /\ trackerSuggestionCb' = st.cb
  /\ trackerConfirmationCb' = st.ccb
  /\ wsState' = st.ws
  /\ reconnectAttempts' = st.attempts
  /\ reconnectPending' = st.rpending
  /\ reconnectDelays' = st.delays
  /\ droppedTracker' = st.dropped
  /\ pendingActions' = st.pending
  /\ debounceTimer' = st.dt
  /\ timers' = st.timers
  /\ nextSeq' = st.seq

\* -------------------------------------------------- WorkflowService (1)
\* WorkflowTracker.disconnect(): ws.close() and ws = null. The socket of a
\* connecting or open client is closing and its onclose handler will run; the
\* reconnect timer of a client whose socket closed before stays set. delays
\* is history: the reconnect timers set since disconnect() or since a socket
\* of the client last opened.
TrackerDisconnect(st) ==
  [ws |-> IF st.ws \in {"connecting", "open"} THEN "closing" ELSE st.ws,
   attempts |-> st.attempts, rpending |-> st.rpending, delays |-> <<>>]

\* initialize(userId): a no-op for the same user, otherwise a new tracker
\* (which has no callbacks registered yet and whose constructor connects),
\* after the disconnect() of the tracker of another user
InitializeSvc(st, u) ==
  IF st.tracker # "null" /\ st.userId = u THEN st
  ELSE [st EXCEPT !.tracker = u, !.userId = u, !.cb = "none", !.ccb = "none",
                  !.ws = "connecting", !.attempts = 0, !.rpending = FALSE,
                  !.delays = <<>>,
                  !.dropped = IF st.tracker # "null" THEN TrackerDisconnect(st)
                              ELSE @]

\* the most recent event came less than DEBOUNCE_DELAY ago: its timer, which
\* only a later event cancels, has time remaining (history: kept in the
\* event's short field and the flush's early field)
WithinWindow(st) ==
  /\ st.seq >= 1
  /\ st.seq \in DOMAIN st.timers
  /\ st.timers[st.seq] > 0

\* trackAction, lines 67-74: the timer debounceTimer names is cancelled
CancelPrevious(st) ==
  IF st.dt # 0 THEN ClearTimeout(st.timers, st.dt) ELSE st.timers

\* the event is queued and the timer set whether or not a tracker exists
\* (user is history: the user the coordinator was initialised for)
TrackActionUnguarded(st, kind, e) ==
  LET n == st.seq + 1
      ev == [seq |-> n, action |-> kind, email |-> e, short |-> WithinWindow(st),
             user |-> st.userId]
  IN [st EXCEPT !.pending = Append(@, ev),
                !.timers = SetTimeout(CancelPrevious(st), n, DEBOUNCE_DELAY),
                !.dt = n,
                !.seq = n]

\* trackAction(action)
TrackActionSvc(st, kind, e) ==
  IF st.tracker = "null" THEN st
  ELSE LET n == st.seq + 1
           ev == [seq |-> n, action |-> kind, email |-> e,
                  short |-> WithinWindow(st), user |-> st.userId]
       IN [st EXCEPT !.pending = Append(@, ev),
                     !.timers = SetTimeout(CancelPrevious(st), n, DEBOUNCE_DELAY),
                     !.dt = n,
                     !.seq = n]

\* ------------------------------------------------------------- the store
\* useEmailStore.markAsRead(emailId, read)
MarkAsReadStore(st, ur, e, read) ==
  LET tracks == e \in DOMAIN ur /\ read /\ ur[e]
      st1 == IF tracks
               THEN TrackActionSvc(InitializeSvc(st, "user123"), "mark_read", e)
               ELSE st
  IN [st |-> st1,
      unread |-> [x \in DOMAIN ur |-> IF x = e THEN ~read ELSE ur[x]]]

\* useEmailStore.toggleStarred(emailId)
ToggleStarredStore(sr, e) == [x \in DOMAIN sr |-> IF x = e THEN ~sr[x] ELSE sr[x]]

\* useEmailStore.moveEmail(emailId, location)
MoveEmailStore(loc, e, target) ==
  [x \in DOMAIN loc |-> IF x = e THEN target ELSE loc[x]]

\* useEmailStore.deleteEmail(emailId): the email goes to the trash
DeleteEmailStore(loc, e) == [x \in DOMAIN loc |-> IF x = e THEN "trash" ELSE loc[x]]

HasTag(q, tag) == \E i \in 1..Len(q) : q[i] = tag
WithoutTag(q, tag) ==
  LET F[i \in 0..Len(q)] ==
        IF i = 0 THEN <<>>
        ELSE IF q[i] = tag THEN F[i - 1] ELSE Append(F[i - 1], q[i])
  IN F[Len(q)]

\* useEmailStore.addTag(emailId, tag)
AddTagStore(tg, e, tag) ==
  [x \in DOMAIN tg |-> IF x = e /\ ~HasTag(tg[x], tag) THEN Append(tg[x], tag) ELSE tg[x]]

\* useEmailStore.removeTag(emailId, tag)
RemoveTagStore(tg, e, tag) ==
  [x \in DOMAIN tg |-> IF x = e THEN WithoutTag(tg[x], tag) ELSE tg[x]]

\* ------------------------------------------------------ WorkflowExecutor
\* A text that the code splits at ':' (an action token, a label) is the
\* sequence of its parts between the ':' characters: "add_label:todo" is
\* <<"add_label", "todo">>, "a:b" is <<"a", "b">>, "" is <<"">>. A value that
\* is not a string (undefined) is <<>>.
Text(t) == <<t>>
NotAString == <<>>

\* a statement of a hook body: a call of a WorkflowEmailAPI method, under the
\* condition the body puts on the email it reads, or a throw
Call(m) == [m |-> m, arg |-> NotAString, when |-> "always"]
CallWith(m, label) == [m |-> m, arg |-> label, when |-> "always"]
CallWhen(m, cond) == [m |-> m, arg |-> NotAString, when |-> cond]

\* the statements each hook body of the model executes, in order
Body(code) ==
  CASE code = "email.markRead()" -> <<Call("markRead")>>
    [] code = "email.star()" -> <<Call("star")>>
    [] code = "email.star(); throw" -> <<Call("star"), Call("throw")>>
    [] code = "throw" -> <<Call("throw")>>
    [] code = "" -> <<>>
    [] code = "if (!email.is_starred) email.star()" ->
         <<CallWhen("star", "!is_starred")>>
    [] code = "email.archive(); email.star(); email.markRead(); email.moveToSpam()" ->
         <<Call("archive"), Call("star"), Call("markRead"), Call("moveToSpam")>>
    [] code = "email.delete(); email.unstar(); email.markUnread(); email.moveToTrash()" ->
         <<Call("delete"), Call("unstar"), Call("markUnread"), Call("moveToTrash")>>
    [] code = "email.addLabel('Work'); email.removeLabel('important')" ->
         <<CallWith("addLabel", Text("Work")),
           CallWith("removeLabel", Text("important"))>>
    [] code = "email.addLabel('todo')" -> <<CallWith("addLabel", Text("todo"))>>
    [] code = "email.star(); email.addLabel(':x'); email.archive()" ->
         <<Call("star"), CallWith("addLabel", <<"", "x">>), Call("archive")>>
    [] code = "email.addLabel(':x'); email.removeLabel('todo')" ->
         <<CallWith("addLabel", <<"", "x">>), CallWith("removeLabel", Text("todo"))>>
    [] code = "email.addLabel(''); email.star()" ->
         <<CallWith("addLabel", Text("")), Call("star")>>
    [] code = "email.markUnread(); email.markRead()" ->
         <<Call("markUnread"), Call("markRead")>>
    [] code = "email.removeLabel(undefined); email.archive()" ->
         <<CallWith("removeLabel", NotAString), Call("archive")>>
    [] OTHER -> <<Call("throw")>>

\* WorkflowEmailAPI: the token each intent method without argument records
IntentToken ==
  [archive |-> "archive", delete |-> "delete", star |-> "star",
   unstar |-> "unstar", markRead |-> "mark_read", markUnread |-> "mark_unread",
   moveToSpam |-> "move_to_spam", moveToTrash |-> "move_to_trash"]

\* addLabel / removeLabel: `label && typeof label === 'string'`
IsLabel(label) == label # NotAString /\ label # Text("")

\* a label call records the bare method token, without the label
RecordIntentWithoutLabel(taken, call) ==
  CASE call.m \in DOMAIN IntentToken -> Append(taken, Text(IntentToken[call.m]))
    [] call.m = "addLabel" /\ IsLabel(call.arg) -> Append(taken, Text("add_label"))
    [] call.m = "removeLabel" /\ IsLabel(call.arg) -> Append(taken, Text("remove_label"))
    [] OTHER -> taken

\* WorkflowEmailAPI intent methods: actionsTaken after the call
RecordIntent(taken, call) ==
  CASE call.m \in DOMAIN IntentToken -> Append(taken, Text(IntentToken[call.m]))
    [] call.m = "addLabel" /\ IsLabel(call.arg) ->
         Append(taken, <<"add_label">> \o call.arg)
    [] call.m = "removeLabel" /\ IsLabel(call.arg) ->
         Append(taken, <<"remove_label">> \o call.arg)
    [] OTHER -> taken

\* the condition of a statement, read through the capability's getters
Holds(cond, email) ==
  IF cond = "!is_starred" THEN ~email.starred ELSE cond = "always"

\* the calls a body makes on the capability object before it ends or throws
RECURSIVE CallsMade(_, _)
CallsMade(stmts, email) ==
  IF stmts = <<>> THEN <<>>
  ELSE IF ~Holds(Head(stmts).when, email) THEN CallsMade(Tail(stmts), email)
  ELSE IF Head(stmts).m = "throw" THEN <<Head(stmts)>>
  ELSE <<Head(stmts)>> \o CallsMade(Tail(stmts), email)

RECURSIVE RecordAll(_, _)
RecordAll(taken, calls) ==
  IF calls = <<>> THEN taken
  ELSE RecordAll(RecordIntent(taken, Head(calls)), Tail(calls))

\* eval(hook.function_code) against the WorkflowEmailAPI: the tokens the body
\* records, and whether it throws
RunCode(code, email) ==
  LET calls == CallsMade(Body(code), email)
      threw == calls # <<>> /\ calls[Len(calls)].m = "throw"
  IN [threw |-> threw, tokens |-> RecordAll(<<>>, calls),
      message |-> IF threw THEN "boom" ELSE "none"]

\* the members of the console object executeHook puts in globalThis while the
\* hook body runs
InjectedConsole == {"log"}

\* the catch around eval reports through console.error before it rethrows:
\* on a console without that member the call is itself a TypeError, which
\* replaces the exception of the hook body
RethrownMessage(m) ==
  IF "error" \in InjectedConsole THEN m ELSE "console.error is not a function"

\* executeHook(hook, email, context); observed is history: the email the
\* hook's capability object wrapped
ExecuteHook(hook, email) ==
  LET r == RunCode(hook.function_code, email)
  IN IF r.threw
       THEN [hook_id |-> hook.id, success |-> FALSE, actions_taken |-> <<>>,
             email_id |-> 0, error |-> RethrownMessage(r.message),
             observed |-> email]
       ELSE [hook_id |-> hook.id, success |-> TRUE, actions_taken |-> r.tokens,
             email_id |-> email.id, error |-> "none", observed |-> email]

\* getHooksForTrigger(trigger): positions of the selected hooks, in list order
RECURSIVE HooksForTriggerFrom(_, _, _)
HooksForTriggerFrom(hs, trigger, i) ==
  IF i > Len(hs) THEN <<>>
  ELSE (IF hs[i].enabled /\ hs[i].trigger_event = trigger THEN <<i>> ELSE <<>>)
       \o HooksForTriggerFrom(hs, trigger, i + 1)

\* every enabled hook, whatever its trigger
AllEnabledHooks(hs, trigger) ==
  HooksForTriggerFrom([i \in 1..Len(hs) |-> [hs[i] EXCEPT !.trigger_event = trigger]],
                      trigger, 1)

\* the enabled matching hooks, last in the list first
NewestHooksFirst(hs, trigger) ==
  LET sel == HooksForTriggerFrom(hs, trigger, 1)
  IN [i \in 1..Len(sel) |-> sel[Len(sel) + 1 - i]]

\* the matching hooks, enabled or not
AllMatchingHooks(hs, trigger) ==
  HooksForTriggerFrom([i \in 1..Len(hs) |-> [hs[i] EXCEPT !.enabled = TRUE]],
                      trigger, 1)

GetHooksForTrigger(hs, trigger) == HooksForTriggerFrom(hs, trigger, 1)

\* the stats are updated whether or not the execution succeeded
UpdateStatsAlways(hs, i, r) ==
  [hs EXCEPT ![i].execution_count = @ + 1, ![i].last_executed = "date"]

\* the execution stats of hook i after result r
UpdateStats(hs, i, r) ==
  IF r.success
    THEN [hs EXCEPT ![i].execution_count = @ + 1, ![i].last_executed = "date"]
    ELSE hs

\* the loop stops at the first hook that fails
RECURSIVE RunHooksUntilFailure(_, _, _, _)
RunHooksUntilFailure(hs, sel, email, results) ==
  IF sel = <<>> THEN [hooks |-> hs, results |-> results]
  ELSE LET i == Head(sel)
           r == ExecuteHook(hs[i], email)
       IN IF r.success
            THEN RunHooksUntilFailure(UpdateStats(hs, i, r), Tail(sel), email,
                                      Append(results, r))
            ELSE [hooks |-> hs, results |-> Append(results, r)]

\* the email after a hook's tokens took effect on it
RECURSIVE EmailAfter(_, _)
EmailAfter(email, tokens) ==
  IF tokens = <<>> THEN email
  ELSE EmailAfter(
         CASE Head(tokens) \in {<<"star">>, <<"unstar">>} ->
                [email EXCEPT !.starred = ~@]
           [] Head(tokens) = <<"mark_read">> -> [email EXCEPT !.unread = FALSE]
           [] Head(tokens) = <<"mark_unread">> -> [email EXCEPT !.unread = TRUE]
           [] OTHER -> email,
         Tail(tokens))

\* each hook's tokens take effect before the next hook runs
RECURSIVE RunHooksApplyingEach(_, _, _, _)
RunHooksApplyingEach(hs, sel, email, results) ==
  IF sel = <<>> THEN [hooks |-> hs, results |-> results]
  ELSE LET i == Head(sel)
           r == ExecuteHook(hs[i], email)
       IN RunHooksApplyingEach(UpdateStats(hs, i, r), Tail(sel),
                               EmailAfter(email, r.actions_taken),
                               Append(results, r))

\* the loop of execute*Workflows over the selected hooks
RECURSIVE RunHooks(_, _, _, _)
RunHooks(hs, sel, email, results) ==
  IF sel = <<>> THEN [hooks |-> hs, results |-> results]
  ELSE LET i == Head(sel)
           r == ExecuteHook(hs[i], email)
       IN RunHooks(UpdateStats(hs, i, r), Tail(sel), email, Append(results, r))

\* one saveHooks() call per successful hook
SaveStepsPerSuccess(results) ==
  LET F[i \in 0..Len(results)] ==
        IF i = 0 THEN <<>>
        ELSE IF results[i].success THEN Append(F[i - 1], [k |-> "save", id |-> 0])
        ELSE F[i - 1]
  IN F[Len(results)]

\* the saveHooks() calls that follow the loop
SaveSteps(results) ==
  IF \E i \in 1..Len(results) : results[i].success
    THEN <<[k |-> "save", id |-> 0]>>
    ELSE <<>>

\* saveHooks(): JSON.stringify of the hook list, as loadHooks reads it back
ToStorage(hs) ==
  [i \in 1..Len(hs) |->
     [hs[i] EXCEPT !.created_at = "iso",
                   !.last_executed = IF @ = "date" THEN "iso" ELSE "absent"]]

\* a value under the storage key that JSON.parse rejects or that is no array
Unreadable == <<[unreadable |-> TRUE]>>

\* the stored texts are taken for the hooks: no timestamp is parsed
LoadHooksKeepingText(v) == IF v = Unreadable THEN <<>> ELSE v

\* loadHooks(): the hook list the constructor sets from the stored value v
LoadHooks(v) ==
  IF v = Unreadable THEN <<>>
  ELSE [i \in 1..Len(v) |->
          [v[i] EXCEPT !.created_at = "date",
                       !.last_executed = IF @ = "iso" THEN "date" ELSE "undefined"]]

\* the body shared by executeEmailWorkflows, executeActionWorkflows and
\* executeEmailCloseWorkflows: select, run each hook, save once
ExecuteWorkflows(call, hs, trigger, email) ==
  LET r == RunHooks(hs, GetHooksForTrigger(hs, trigger), email, <<>>)
  IN [call |-> call, trigger |-> trigger, email |-> email, hooks |-> r.hooks,
      results |-> r.results, hooksBefore |-> hs,
      trace |-> [i \in 1..Len(r.results) |-> [k |-> "run", id |-> r.results[i].hook_id]]
                  \o SaveSteps(r.results),
      applied |-> <<>>, ops |-> <<>>, feedback |-> <<>>]

\* executeEmailWorkflows(email, context)
ExecuteEmailWorkflows(hs, email) ==
  ExecuteWorkflows("executeEmailWorkflows", hs, "email_received", email)

\* executeEmailCloseWorkflows(email, context)
ExecuteEmailCloseWorkflows(hs, email) ==
  ExecuteWorkflows("executeEmailCloseWorkflows", hs, "email_closed", email)

\* executeActionWorkflows(action, context): the email is rebuilt from the event
ActionEmail(ev) == [id |-> ev.email, unread |-> TRUE, starred |-> FALSE]

ExecuteActionWorkflows(hs, ev) ==
  ExecuteWorkflows("executeActionWorkflows", hs, "user_action", ActionEmail(ev))

IntentionalActions ==
  {"star", "unstar", "delete", "archive", "add_label", "remove_label",
   "mark_read", "mark_unread", "move_to_spam", "move_to_trash"}

\* a filter that lets every kind through
AnalyzeEveryAction(kind) == kind = kind

\* shouldAnalyzeForPatterns(action)
ShouldAnalyzeForPatterns(kind) == kind \in IntentionalActions

\* -------------------------------------------------- WorkflowService (2)
\* the coordinator and the store, threaded through handleWorkflowResults, with
\* what the calls did: the applyWorkflowActions calls, the store calls and the
\* messages handed to the toast manager
World(st) ==
  [st |-> st, unread |-> unread, starred |-> starred, location |-> location,
   tags |-> tags, applied |-> <<>>, ops |-> <<>>, feedback |-> <<>>,
   actionsApplied |-> <<>>]
SetStore(w) ==
  /\ unread' = w.unread
  /\ starred' = w.starred
  /\ location' = w.location
  /\ tags' = w.tags
\* the execute call ex with what handleWorkflowResults then did
Executed(ex, w) ==
  [ex EXCEPT !.applied = w.applied, !.ops = w.ops, !.feedback = w.feedback,
             !.trace = @ \o [i \in 1..Len(w.applied) |->
                               [k |-> "apply", id |-> w.applied[i].hook_id]]]

\* the keys of labelMap in applyWorkflowActions (each maps to itself)
LabelMap ==
  {"important", "work", "personal", "finance", "travel", "shopping", "promotions"}

\* String.toLowerCase over the label names of the model
ToLowerCase(t) == IF t = "Work" THEN "work" ELSE IF t = "Todo" THEN "todo" ELSE t

\* a store call of applyWorkflowActions and the entry it pushes to actionsApplied
StoreCall(op, e, arg) == [op |-> op, email |-> e, arg |-> arg]
Applied(text, label) == [text |-> text, label |-> label]
Done(w, call, said) ==
  [w EXCEPT !.ops = Append(@, call), !.actionsApplied = Append(@, said)]

\* the first matching branch handles every token, labels included
ApplyTokenFirstBranch(w, a, e) ==
  Done([w EXCEPT !.location = DeleteEmailStore(@, e)],
       StoreCall("deleteEmail", e, "-"), Applied("deleted", "-"))

\* applyWorkflowActions, lines 287-354: the branch of one token
ApplyToken(w, a, e) ==
  CASE a = Text("delete") ->
         Done([w EXCEPT !.location = DeleteEmailStore(@, e)],
              StoreCall("deleteEmail", e, "-"), Applied("deleted", "-"))
    [] a = Text("archive") ->
         Done([w EXCEPT !.location = MoveEmailStore(@, e, "archive")],
              StoreCall("moveEmail", e, "archive"), Applied("archived", "-"))
    [] a = Text("star") ->
         Done([w EXCEPT !.starred = ToggleStarredStore(@, e)],
              StoreCall("toggleStarred", e, "-"), Applied("starred", "-"))
    [] a = Text("unstar") ->
         Done([w EXCEPT !.starred = ToggleStarredStore(@, e)],
              StoreCall("toggleStarred", e, "-"), Applied("unstarred", "-"))
    [] a = Text("mark_read") ->
         LET m == MarkAsReadStore(w.st, w.unread, e, TRUE)
         IN Done([w EXCEPT !.st = m.st, !.unread = m.unread],
                 StoreCall("markAsRead", e, "true"), Applied("marked as read", "-"))
    [] a = Text("mark_unread") ->
         LET m == MarkAsReadStore(w.st, w.unread, e, FALSE)
         IN Done([w EXCEPT !.st = m.st, !.unread = m.unread],
                 StoreCall("markAsRead", e, "false"),
                 Applied("marked as unread", "-"))
    [] Len(a) >= 2 /\ a[1] = "add_label" ->
         LET label == a[2]
         IN IF label # "" /\ ToLowerCase(label) \in LabelMap
              THEN Done([w EXCEPT !.tags = AddTagStore(@, e, ToLowerCase(label))],
                        StoreCall("addTag", e, ToLowerCase(label)),
                        Applied("labeled as", label))
              ELSE w
    [] Len(a) >= 2 /\ a[1] = "remove_label" ->
         LET label == a[2]
         IN IF label # "" /\ ToLowerCase(label) \in LabelMap
              THEN Done([w EXCEPT !.tags = RemoveTagStore(@, e, ToLowerCase(label))],
                        StoreCall("removeTag", e, ToLowerCase(label)),
                        Applied("removed label", label))
              ELSE w
    [] a = Text("move_to_spam") ->
         Done([w EXCEPT !.location = MoveEmailStore(@, e, "spam")],
              StoreCall("moveEmail", e, "spam"), Applied("moved to spam", "-"))
    [] a = Text("move_to_trash") ->
         Done([w EXCEPT !.location = MoveEmailStore(@, e, "trash")],
              StoreCall("moveEmail", e, "trash"), Applied("moved to trash", "-"))
    [] OTHER -> w

\* actions.forEach(...), in list order
RECURSIVE ApplyTokens(_, _, _)
ApplyTokens(w, actions, e) ==
  IF actions = <<>> THEN w
  ELSE ApplyTokens(ApplyToken(w, Head(actions), e), Tail(actions), e)

\* one toast per applied token
FeedbackPerToken(actionsApplied, hookId) ==
  [i \in 1..Len(actionsApplied) |->
     [hook_id |-> hookId, summary |-> <<actionsApplied[i]>>]]

\* showWorkflowFeedback(actionsApplied, hookId): the messages toastManager.add
\* gets; the description joins the entries of actionsApplied
ShowWorkflowFeedback(actionsApplied, hookId) ==
  <<[hook_id |-> hookId, summary |-> actionsApplied]>>

\* the world after one applyWorkflowActions call, with the record of the call
TokensApplied(w, w1, fb) ==
  [w1 EXCEPT !.ops = w.ops \o w1.ops,
             !.feedback = @ \o fb,
             !.applied[Len(w.applied)] = [@ EXCEPT !.ops = w1.ops, !.feedback = fb]]

\* applyWorkflowActions, lines 356-359: feedback when a token was applied
FeedbackFor(w, w1, hookId) ==
  TokensApplied(w, w1,
                IF Len(w1.actionsApplied) > 0
                  THEN ShowWorkflowFeedback(w1.actionsApplied, hookId)
                  ELSE <<>>)

\* applyWorkflowActions(hookId, actions, emailId)
ApplyWorkflowActions(w, hookId, actions, e) ==
  IF e = 0 THEN w          \* no email id on the result
  ELSE FeedbackFor(w, ApplyTokens([w EXCEPT !.actionsApplied = <<>>, !.ops = <<>>],
                                  actions, e),
                   hookId)

\* handleWorkflowResults(results)
RECURSIVE HandleWorkflowResults(_, _)
HandleWorkflowResults(w, results) ==
  IF results = <<>> THEN w
  ELSE LET r == Head(results)
           w1 == IF r.success /\ r.actions_taken # <<>>
                   THEN ApplyWorkflowActions(
                          [w EXCEPT !.applied =
                             Append(@, [hook_id |-> r.hook_id,
                                        email_id |-> r.email_id,
                                        tokens |-> r.actions_taken,
                                        ops |-> <<>>, feedback |-> <<>>])],
                          r.hook_id, r.actions_taken, r.email_id)
                   ELSE w
       IN HandleWorkflowResults(w1, Tail(results))

\* the last eligible event of the batch rather than its last event
LastEligibleAction(batch) ==
  LET ok == {i \in 1..Len(batch) : ShouldAnalyzeForPatterns(batch[i].action)}
  IN IF ok = {} THEN batch[Len(batch)]
     ELSE batch[CHOOSE i \in ok : \A j \in ok : j <= i]

\* processPendingActions, line 95
MostRecentAction(batch) == batch[Len(batch)]

\* processPendingActions, lines 98-101: every batched event goes to the tracker
SendBatch(batch, via) ==
  [i \in 1..Len(batch) |->
     [seq |-> batch[i].seq, action |-> batch[i].action, via |-> via]]

\* the timer handle is reset but the batch is kept
ResetTimerOnly(st) == [st EXCEPT !.dt = 0]

\* the events tracked while the flush ran stay pending, with their timer
ClearSentOnly(st) ==
  IF st.dt \in DOMAIN st.timers /\ st.timers[st.dt] = DEBOUNCE_DELAY
    THEN [st EXCEPT !.pending = SelectSeq(@, LAMBDA ev : ev.seq = st.dt)]
    ELSE [st EXCEPT !.pending = <<>>, !.dt = 0]

\* processPendingActions, lines 123-125
ClearPending(st) == [st EXCEPT !.pending = <<>>, !.dt = 0]

\* processPendingActions, lines 98-126: the batch is sent, the hooks of the
\* most recent action were run (ex) and their results handled (w1)
FlushResult(st, h, analyze, mostRecentAction, ex, w1) ==
  [w |-> [w1 EXCEPT !.st = ClearPending(w1.st)],
   hooks |-> ex.hooks,
   exec |-> IF analyze THEN Executed(ex, w1) ELSE NoExec,
   stored |-> IF SaveSteps(ex.results) # <<>> THEN ToStorage(ex.hooks)
              ELSE stored,
   sent |-> {SendBatch(st.pending, st.tracker)[i].seq : i \in 1..Len(st.pending)},
   flush |-> [timer |-> h,
              batch |-> st.pending,
              sent |-> SendBatch(st.pending, st.tracker),
              sentBefore |-> sentSeqs,
              analyzed |-> IF analyze THEN <<mostRecentAction.seq>> ELSE <<>>,
              executed |-> [i \in 1..Len(ex.results) |-> ex.results[i].hook_id],
              early |-> WithinWindow(st),
              ws |-> st.ws]]

\* processPendingActions, lines 104-121: handleWorkflowResults(results)
FlushExecuted(st, h, analyze, mostRecentAction, ex) ==
  FlushResult(st, h, analyze, mostRecentAction, ex,
              HandleWorkflowResults(World(st), ex.results))

\* processPendingActions, lines 103-110: executeActionWorkflows for the most
\* recent action when it is one to analyze
FlushBatch(st, h, analyze, mostRecentAction) ==
  FlushExecuted(st, h, analyze, mostRecentAction,
                IF analyze THEN ExecuteActionWorkflows(hooks, mostRecentAction)
                ELSE [NoExec EXCEPT !.hooks = hooks])

\* processPendingActions(), called by debounce timer h
ProcessPendingActions(st, h) ==
  IF st.pending = <<>> \/ st.tracker = "null"   \* this.tracker! is null: TypeError
    THEN [w |-> World(st), hooks |-> hooks, flush |-> lastFlush, sent |-> {},
          exec |-> NoExec, stored |-> stored]
    ELSE FlushBatch(st, h,
                    st.userId # "null"
                      /\ ShouldAnalyzeForPatterns(MostRecentAction(st.pending).action),
                    MostRecentAction(st.pending))

\* ------------------------------------------------ suggestion lifecycle
InSeq(x, q) == \E i \in 1..Len(q) : q[i] = x

\* Set.add: insertion order kept, no duplicates
AddActive(active, sid) == IF InSeq(sid, active) THEN active ELSE Append(active, sid)

\* cleanupOldSuggestions(): the callback is called for every active id, then
\* the set is cleared; both only when a callback is registered
CleanupOldSuggestions(active, cleanupCb) ==
  IF Len(active) > 0 /\ cleanupCb # "none"
    THEN [active |-> <<>>,
          steps |-> [i \in 1..Len(active) |-> [k |-> "cleanup", id |-> active[i]]]
                      \o <<[k |-> "clear", id |-> "-"]>>]
    ELSE [active |-> active, steps |-> <<>>]

\* the callback onSuggestion hands to the tracker, lines 138-149
ForwardSuggestion(active, cleanupCb, sid) ==
  LET c == CleanupOldSuggestions(active, cleanupCb)
  IN [active |-> AddActive(c.active, sid),
      steps |-> c.steps \o <<[k |-> "add", id |-> sid], [k |-> "callback", id |-> sid]>>]

\* a toast that toastManager.close removed: its content is gone
ClosedToast == [open |-> FALSE]

\* SuggestionUIHandler's cleanup callback, applied for each "cleanup" step:
\* the toast the map names is closed and the entry deleted
RECURSIVE CloseSuggestionToasts(_, _)
CloseSuggestionToasts(ui, steps) ==
  IF steps = <<>> THEN ui
  ELSE LET s == Head(steps)
           ui1 == IF s.k = "cleanup" /\ s.id \in DOMAIN ui.map
                    THEN [map |-> [x \in DOMAIN ui.map \ {s.id} |-> ui.map[x]],
                          toasts |-> [ui.toasts EXCEPT ![ui.map[s.id]] = ClosedToast]]
                    ELSE ui
       IN CloseSuggestionToasts(ui1, Tail(steps))

RunCleanupCallback(ui, steps) ==
  IF suggestionCleanupCallback = "ui" THEN CloseSuggestionToasts(ui, steps) ELSE ui

\* SuggestionUIHandler.handleSuggestion(suggestion): a toast with an Accept button
HandleSuggestion(ui, sug) ==
  LET t == Len(ui.toasts) + 1
  IN [map |-> [x \in DOMAIN ui.map \cup {sug.id} |-> IF x = sug.id THEN t ELSE ui.map[x]],
      toasts |-> Append(ui.toasts, [suggestion |-> sug, open |-> TRUE])]

\* the hook the Accept button builds from the suggestion, lines 86-92
HookFromSuggestion(sug) ==
  [trigger_event |-> sug.trigger_event, enabled |-> TRUE,
   function_code |-> sug.generated_function]

\* WorkflowExecutor.addHook(hook)
AddHook(hs, hook, id) ==
  Append(hs, [id |-> id, trigger_event |-> hook.trigger_event,
              enabled |-> hook.enabled, function_code |-> hook.function_code,
              created_at |-> "date",
              execution_count |-> 0, last_executed |-> "undefined"])

\* the hook is added but the active suggestions are left alone
AddWorkflowNoCleanup(hs, hook, id, active, cleanupCb) ==
  [hooks |-> AddHook(hs, hook, id), active |-> active,
   steps |-> <<[k |-> "addHook", id |-> "-"]>>]

\* WorkflowService.addWorkflow(workflow)
AddWorkflowSvc(hs, hook, id, active, cleanupCb) ==
  LET c == CleanupOldSuggestions(active, cleanupCb)
  IN [hooks |-> AddHook(hs, hook, id), active |-> c.active,
      steps |-> <<[k |-> "addHook", id |-> "-"]>> \o c.steps]

\* WorkflowTracker.respondToSuggestion(id, accepted): the messages ws.send gets
TrackerRespondToSuggestion(ws, sid, accepted) ==
  IF ws = "open"
    THEN <<[type |-> "suggestion_response", suggestion_id |-> sid,
            accepted |-> accepted]>>
    ELSE <<>>

\* WorkflowService.respondToSuggestion(id, accepted): the messages sent
RespondToSuggestionSvc(st, sid, accepted) ==
  IF st.tracker = "null" THEN <<>>
  ELSE TrackerRespondToSuggestion(st.ws, sid, accepted)

\* the public and private members of class WorkflowTracker
TrackerMembers ==
  {"connect", "attemptReconnect", "handleMessage", "trackAction",
   "respondToSuggestion", "onSuggestion", "onConfirmation", "disconnect"}

\* WorkflowExecutor.getCurrentWorkflows()
GetCurrentWorkflows(hs) ==
  [i \in 1..Len(hs) |-> [id |-> hs[i].id, trigger |-> hs[i].trigger_event]]

\* WorkflowService.sendCurrentWorkflowsToBackend(): the messages sent; calling
\* a member the tracker does not have is a TypeError, which the method catches
SendCurrentWorkflowsToBackend(st, hs) ==
  IF st.tracker = "null" THEN <<>>
  ELSE IF "sendMessage" \in TrackerMembers
    THEN <<[type |-> "current_workflows", workflows |-> GetCurrentWorkflows(hs)]>>
    ELSE <<>>

\* WorkflowExecutor.toggleHook(hookId, enabled)
ToggleHook(hs, id, enabled) ==
  [hooks |-> [i \in 1..Len(hs) |->
                IF hs[i].id = id THEN [hs[i] EXCEPT !.enabled = enabled] ELSE hs[i]],
   success |-> \E i \in 1..Len(hs) : hs[i].id = id]

\* WorkflowExecutor.deleteHook(hookId)
DeleteHook(hs, id) ==
  LET keep == {i \in 1..Len(hs) : hs[i].id # id}
      F[i \in 0..Len(hs)] ==
        IF i = 0 THEN <<>>
        ELSE IF i \in keep THEN Append(F[i - 1], hs[i]) ELSE F[i - 1]
  IN [hooks |-> F[Len(hs)], success |-> \E i \in 1..Len(hs) : hs[i].id = id]

\* WorkflowService.respondToSuggestion(id, accepted)
RespondSteps(sid, accepted) ==
  IF tracker = "null" THEN <<>>
  ELSE <<[k |-> IF accepted THEN "respond_accept" ELSE "respond_reject", id |-> sid]>>

UI == [map |-> activeSuggestionToasts, toasts |-> toasts]

\* ================================================================ actions
UnchangedWs ==
  UNCHANGED <<wsState, reconnectAttempts, reconnectPending, reconnectDelays,
              droppedTracker>>
UnchangedSvc ==
  /\ UNCHANGED <<tracker, userId, trackerSuggestionCb, trackerConfirmationCb,
                 pendingActions,
                 debounceTimer, timers, nextSeq>>
  /\ UnchangedWs
\* the EmailSimulator as one value
Simulator ==
  [initialized |-> isInitialized, pending |-> pendingEmails,
   interval |-> simulationInterval, timers |-> simulatorTimers,
   handles |-> simulatorHandles, delivered |-> delivered,
   started |-> simulationStarted, with |-> startedWith]
SetSimulator(sim) ==
  /\ isInitialized' = sim.initialized
  /\ pendingEmails' = sim.pending
  /\ simulationInterval' = sim.interval
  /\ simulatorTimers' = sim.timers
  /\ simulatorHandles' = sim.handles
  /\ delivered' = sim.delivered
  /\ simulationStarted' = sim.started
  /\ startedWith' = sim.with
UnchangedSimulator ==
  UNCHANGED <<isInitialized, pendingEmails, simulationInterval, simulatorTimers,
              simulatorHandles, delivered, simulationStarted, startedWith>>
\* the emails of the store and the simulator that feeds it
UnchangedStore == UNCHANGED <<unread, starred, location, tags>> /\ UnchangedSimulator
UnchangedUI == UNCHANGED <<uiInitialized, activeSuggestionToasts, toasts>>
UnchangedSuggestions == UNCHANGED <<activeSuggestionIds, suggestionCleanupCallback>>
\* the step makes no execute call
NoExecuteCall == lastExec' = NoExec
UnchangedHooks == UNCHANGED <<hooks, nextHookId, stored>> /\ NoExecuteCall
UnchangedFlushes == UNCHANGED <<sentSeqs, lastFlush>>
UnchangedHistory == UnchangedFlushes /\ UNCHANGED rejected

\* workflowService.initialize(userId)
Initialize(u) ==
  /\ SetSvc(InitializeSvc(Svc, u))
  /\ UNCHANGED lastOp
  /\ UnchangedStore /\ UnchangedUI /\ UnchangedSuggestions /\ UnchangedHooks
  /\ UnchangedHistory

\* workflowService.disconnect()
Disconnect ==
  /\ tracker # "null"
  /\ SetSvc([Svc EXCEPT !.tracker = "null", !.userId = "null", !.cb = "none",
                        !.ccb = "none",
                        !.ws = "none", !.attempts = 0, !.rpending = FALSE,
                        !.delays = <<>>, !.dropped = TrackerDisconnect(Svc)])
  /\ UNCHANGED lastOp
  /\ UnchangedStore /\ UnchangedUI /\ UnchangedSuggestions /\ UnchangedHooks
  /\ UnchangedHistory

\* a gesture's workflowService.trackAction(...) call
TrackActionWithin(cap, kind, e) ==
  /\ nextSeq < cap
  /\ SetSvc(TrackActionSvc(Svc, kind, e))
  /\ UNCHANGED lastOp
  /\ UnchangedStore /\ UnchangedUI /\ UnchangedSuggestions /\ UnchangedHooks
  /\ UnchangedHistory

TrackAction(kind, e) == TrackActionWithin(MaxEvents, kind, e)

\* EmailActions.handleMarkAsRead(read): trackAction, then the store's markAsRead
HandleMarkAsRead(read, e) ==
  LET st1 == TrackActionSvc(Svc, IF read THEN "mark_read" ELSE "mark_unread", e)
      m == MarkAsReadStore(st1, unread, e, read)
  IN /\ m.st.seq <= MaxEvents
     /\ SetSvc(m.st)
     /\ unread' = m.unread
     /\ UNCHANGED lastOp
     /\ UNCHANGED <<starred, location, tags>>
     /\ UnchangedSimulator
     /\ UnchangedUI /\ UnchangedSuggestions /\ UnchangedHooks /\ UnchangedHistory

\* time passes, up to the next timer's deadline
Advance ==
  /\ DOMAIN timers # {}
  /\ MinRem(timers) > 0
  /\ LET d == Min(Tick, MinRem(timers))
     IN timers' = [h \in DOMAIN timers |-> timers[h] - d]
  /\ UNCHANGED <<tracker, userId, trackerSuggestionCb, trackerConfirmationCb,
                 pendingActions,
                 debounceTimer, nextSeq, lastOp>>
  /\ UnchangedWs
  /\ UnchangedStore /\ UnchangedUI /\ UnchangedSuggestions /\ UnchangedHooks
  /\ UnchangedHistory

\* the state after processPendingActions returned r
Flushed(r) ==
  /\ r.w.st.seq <= MaxEvents
  /\ SetSvc(r.w.st)
  /\ SetStore(r.w)
  /\ hooks' = r.hooks
  /\ stored' = r.stored
  /\ lastExec' = r.exec
  /\ sentSeqs' = sentSeqs \cup r.sent
  /\ lastFlush' = r.flush
  /\ UnchangedSimulator

\* a due debounce timer fires, oldest first: processPendingActions()
TimerFires(h) ==
  /\ h \in DOMAIN timers
  /\ timers[h] = 0
  /\ \A k \in DOMAIN timers : timers[k] = 0 => h <= k
  /\ Flushed(ProcessPendingActions([Svc EXCEPT !.timers = ClearTimeout(@, h)], h))
  /\ UNCHANGED <<lastOp, rejected>>
  /\ UNCHANGED nextHookId
  /\ UnchangedUI /\ UnchangedSuggestions

\* SuggestionUIHandler.initialize(toastManager): setupCallbacks(), once
UIInitialize ==
  /\ ~uiInitialized
  /\ uiInitialized' = TRUE
  /\ suggestionCleanupCallback' = "ui"
  /\ trackerSuggestionCb' = IF tracker = "null" THEN trackerSuggestionCb ELSE "ui"
  /\ trackerConfirmationCb' = IF tracker = "null" THEN trackerConfirmationCb ELSE "ui"
  /\ UNCHANGED lastOp
  /\ UNCHANGED <<tracker, userId, pendingActions, debounceTimer, timers, nextSeq,
                 activeSuggestionIds, activeSuggestionToasts, toasts>>
  /\ UnchangedWs
  /\ UnchangedStore /\ UnchangedHooks /\ UnchangedHistory

\* workflowService.onSuggestion(callback) with a callback of another consumer
OnSuggestion ==
  /\ tracker # "null"
  /\ trackerSuggestionCb' = "plain"
  /\ UNCHANGED lastOp
  /\ UNCHANGED <<tracker, userId, trackerConfirmationCb, pendingActions, debounceTimer, timers, nextSeq>>
  /\ UnchangedWs
  /\ UnchangedStore /\ UnchangedUI /\ UnchangedSuggestions /\ UnchangedHooks
  /\ UnchangedHistory

\* an inbound workflow_suggestion message reaches the tracker's callback
ReceiveSuggestion(sug) ==
  /\ tracker # "null"
  /\ wsState = "open"
  /\ trackerSuggestionCb # "none"
  /\ Len(toasts) < MaxSuggestions
  /\ LET f == ForwardSuggestion(activeSuggestionIds, suggestionCleanupCallback, sug.id)
         ui1 == RunCleanupCallback(UI, f.steps)
         ui2 == IF trackerSuggestionCb = "ui" THEN HandleSuggestion(ui1, sug) ELSE ui1
     IN /\ activeSuggestionIds' = f.active
        /\ activeSuggestionToasts' = ui2.map
        /\ toasts' = ui2.toasts
        /\ lastOp' = [op |-> "suggestion", id |-> sug.id,
                      before |-> activeSuggestionIds, steps |-> f.steps,
                      cleanupCb |-> suggestionCleanupCallback,
                      after |-> f.active]
  /\ rejected' = rejected \ {sug.id}
  /\ UNCHANGED <<uiInitialized, suggestionCleanupCallback>>
  /\ UnchangedSvc /\ UnchangedStore /\ UnchangedHooks /\ UnchangedFlushes

\* the event.data of an inbound frame: text that JSON.parse rejects, or a
\* message with a type and, when hasData, a data member. A member the payload
\* lacks reads "undefined".
NoData == [message |-> "undefined"]
EmptySuggestion ==
  [id |-> "undefined", generated_function |-> "undefined",
   trigger_event |-> "undefined"]
\* the data member the callbacks are handed
Undefined == [undefined |-> TRUE]
DataOf(m) == IF m.hasData THEN m.data ELSE Undefined

\* handleMessage(message): the callbacks of the tracker it calls, and whether
\* it throws before it calls one (message.data.message of a message without
\* data)
HandleMessage(m, cb, ccb) ==
  CASE m.type = "workflow_suggestion" /\ cb # "none" ->
         [calls |-> <<[cb |-> "onSuggestionCallback", arg |-> DataOf(m)]>>,
          threw |-> FALSE]
    [] m.type = "suggestion_accepted" /\ ccb # "none" ->
         IF m.hasData
           THEN [calls |-> <<[cb |-> "onConfirmationCallback", arg |-> m.data]>>,
                 threw |-> FALSE]
           ELSE [calls |-> <<>>, threw |-> TRUE]
    [] OTHER -> [calls |-> <<>>, threw |-> FALSE]

\* ws.onmessage(event): JSON.parse and handleMessage inside one try / catch.
\* The callback of a workflow_suggestion is the one workflowService.onSuggestion
\* handed to the tracker: it reads suggestion.description first, which throws
\* on undefined, then cleans up, tracks suggestion.id and calls the consumer.
OnMessage(m) ==
  /\ tracker # "null"
  /\ wsState = "open"
  /\ Len(toasts) < MaxSuggestions
  /\ LET h == IF m.parses
                THEN HandleMessage(m, trackerSuggestionCb, trackerConfirmationCb)
                ELSE [calls |-> <<>>, threw |-> TRUE]
         forwards == /\ h.calls # <<>>
                     /\ h.calls[1].cb = "onSuggestionCallback"
                     /\ m.hasData
         f == IF forwards
                THEN ForwardSuggestion(activeSuggestionIds,
                                       suggestionCleanupCallback, m.data.id)
                ELSE [active |-> activeSuggestionIds, steps |-> <<>>]
         ui1 == RunCleanupCallback(UI, f.steps)
         ui2 == IF forwards /\ trackerSuggestionCb = "ui"
                  THEN HandleSuggestion(ui1, m.data) ELSE ui1
     IN /\ activeSuggestionIds' = f.active
        /\ activeSuggestionToasts' = ui2.map
        /\ toasts' = ui2.toasts
        /\ rejected' = IF forwards THEN rejected \ {m.data.id} ELSE rejected
        /\ lastOp' = [op |-> "message", message |-> m, calls |-> h.calls,
                      onSuggestion |-> trackerSuggestionCb,
                      onConfirmation |-> trackerConfirmationCb,
                      caught |-> h.threw \/ (h.calls # <<>> /\ ~m.hasData
                                              /\ m.type = "workflow_suggestion"),
                      before |-> activeSuggestionIds, steps |-> f.steps,
                      after |-> f.active]
  /\ UNCHANGED <<uiInitialized, suggestionCleanupCallback>>
  /\ UnchangedSvc /\ UnchangedStore /\ UnchangedHooks /\ UnchangedFlushes

\* the Accept button of suggestion toast t is clicked
AcceptSuggestion(t) ==
  /\ t \in 1..Len(toasts)
  /\ toasts[t].open
  /\ nextHookId < MaxHooks
  /\ LET sug == toasts[t].suggestion
         map1 == [x \in DOMAIN activeSuggestionToasts \ {sug.id} |->
                    activeSuggestionToasts[x]]
         a == AddWorkflowSvc(hooks, HookFromSuggestion(sug), nextHookId + 1,
                             activeSuggestionIds, suggestionCleanupCallback)
         ui1 == RunCleanupCallback([map |-> map1, toasts |-> toasts], a.steps)
     IN /\ hooks' = a.hooks
        /\ stored' = ToStorage(a.hooks)
        /\ nextHookId' = nextHookId + 1
        /\ activeSuggestionIds' = a.active
        /\ activeSuggestionToasts' = ui1.map
        /\ toasts' = ui1.toasts
        /\ lastOp' = [op |-> "accept", id |-> sug.id, suggestion |-> sug,
                      before |-> activeSuggestionIds,
                      steps |-> RespondSteps(sug.id, TRUE) \o a.steps,
                      hooksBefore |-> hooks, hooksAfter |-> a.hooks,
                      after |-> a.active,
                      sent |-> RespondToSuggestionSvc(Svc, sug.id, TRUE)
                                 \o SendCurrentWorkflowsToBackend(Svc, a.hooks)]
  /\ UNCHANGED <<uiInitialized, suggestionCleanupCallback>>
  /\ UnchangedSvc /\ UnchangedStore /\ UnchangedHistory /\ NoExecuteCall

\* workflowService.respondToSuggestion(id, false)
RejectSuggestion(sid) ==
  /\ InSeq(sid, activeSuggestionIds)
  /\ lastOp' = [op |-> "reject", id |-> sid, steps |-> RespondSteps(sid, FALSE),
                tracker |-> tracker,
                sent |-> RespondToSuggestionSvc(Svc, sid, FALSE)]
  /\ rejected' = rejected \cup {sid}
  /\ UnchangedSvc /\ UnchangedStore /\ UnchangedUI /\ UnchangedSuggestions
  /\ UnchangedHooks /\ UnchangedFlushes

\* workflowService.addWorkflow(workflow): a hook authored directly
AddWorkflowWithin(cap, trigger, code) ==
  /\ nextHookId < cap
  /\ LET hook == [trigger_event |-> trigger, enabled |-> TRUE, function_code |-> code]
         a == AddWorkflowSvc(hooks, hook, nextHookId + 1, activeSuggestionIds,
                             suggestionCleanupCallback)
         ui1 == RunCleanupCallback(UI, a.steps)
     IN /\ hooks' = a.hooks
        /\ stored' = ToStorage(a.hooks)
        /\ nextHookId' = nextHookId + 1
        /\ activeSuggestionIds' = a.active
        /\ activeSuggestionToasts' = ui1.map
        /\ toasts' = ui1.toasts
        /\ lastOp' = [op |-> "addWorkflow", before |-> activeSuggestionIds,
                      steps |-> a.steps, after |-> a.active,
                      hooksAfter |-> a.hooks,
                      sent |-> SendCurrentWorkflowsToBackend(Svc, a.hooks)]
  /\ UNCHANGED <<uiInitialized, suggestionCleanupCallback>>
  /\ UnchangedSvc /\ UnchangedStore /\ UnchangedHistory /\ NoExecuteCall

AddWorkflow(trigger, code) == AddWorkflowWithin(MaxHooks, trigger, code)

\* workflowService.deleteWorkflow(hookId)
DeleteWorkflow(id) ==
  /\ LET d == DeleteHook(hooks, id)
     IN /\ hooks' = d.hooks
        /\ stored' = IF d.success THEN ToStorage(d.hooks) ELSE stored
        /\ lastOp' = [op |-> "deleteWorkflow", id |-> id, success |-> d.success,
                      hooksAfter |-> d.hooks,
                      sent |-> IF d.success
                                 THEN SendCurrentWorkflowsToBackend(Svc, d.hooks)
                                 ELSE <<>>]
  /\ UNCHANGED nextHookId
  /\ UnchangedSvc /\ UnchangedStore /\ UnchangedUI /\ UnchangedSuggestions
  /\ UnchangedHistory /\ NoExecuteCall

\* workflowService.toggleWorkflow(hookId, enabled)
ToggleWorkflow(id, enabled) ==
  /\ LET t == ToggleHook(hooks, id, enabled)
     IN /\ hooks' = t.hooks
        /\ stored' = IF t.success THEN ToStorage(t.hooks) ELSE stored
  /\ UNCHANGED <<nextHookId, lastOp>>
  /\ UnchangedSvc /\ UnchangedStore /\ UnchangedUI /\ UnchangedSuggestions
  /\ UnchangedHistory /\ NoExecuteCall

\* the effects of handleIncomingEmail / handleEmailClose after the execute
\* call ex: handleWorkflowResults(results)
ResultsHandled(ex, w1) ==
  /\ w1.st.seq <= MaxEvents
  /\ SetSvc(w1.st)
  /\ SetStore(w1)
  /\ hooks' = ex.hooks
  /\ stored' = IF SaveSteps(ex.results) # <<>> THEN ToStorage(ex.hooks) ELSE stored
  /\ lastExec' = Executed(ex, w1)

\* handleIncomingEmail / handleEmailClose: the execute call, then
\* handleWorkflowResults(results)
HandleExecuted(ex) ==
  /\ ResultsHandled(ex, HandleWorkflowResults(World(Svc), ex.results))
  /\ UnchangedSimulator

\* the email as the mailbox holds it
MailboxEmail(e) == [id |-> e, unread |-> unread[e], starred |-> starred[e]]

\* workflowService.handleIncomingEmail(email)
HandleIncomingEmail(e) ==
  /\ \A i \in 1..Len(hooks) : hooks[i].execution_count < MaxRuns
  /\ IF userId = "null"
       THEN UnchangedSvc /\ UnchangedStore /\ UnchangedHooks
       ELSE /\ HandleExecuted(ExecuteEmailWorkflows(hooks, MailboxEmail(e)))
            /\ UNCHANGED nextHookId
  /\ UNCHANGED lastOp
  /\ UnchangedUI /\ UnchangedSuggestions /\ UnchangedHistory

\* workflowService.handleEmailClose(email, location)
HandleEmailClose(e) ==
  /\ \A i \in 1..Len(hooks) : hooks[i].execution_count < MaxRuns
  /\ IF userId = "null"
       THEN UnchangedSvc /\ UnchangedStore /\ UnchangedHooks
       ELSE /\ HandleExecuted(ExecuteEmailCloseWorkflows(hooks, MailboxEmail(e)))
            /\ UNCHANGED nextHookId
  /\ UNCHANGED lastOp
  /\ UnchangedUI /\ UnchangedSuggestions /\ UnchangedHistory

\* the page is loaded again: the coordinator, the tracker and the store start
\* anew and the constructor of the executor calls loadHooks(); the value under
\* the storage key is the one last saved or one that cannot be read
Reload(v) ==
  /\ hooks' = LoadHooks(v)
  /\ stored' = v
  /\ SetSvc([Svc EXCEPT !.tracker = "null", !.userId = "null", !.cb = "none",
                        !.ccb = "none", !.ws = "none", !.attempts = 0,
                        !.rpending = FALSE, !.delays = <<>>, !.pending = <<>>,
                        !.dt = 0, !.timers = NoTimers, !.dropped = NoTracker])
  /\ starred' = [e \in StoreIds |-> FALSE]
  /\ location' = [e \in StoreIds |-> "inbox"]
  /\ tags' = [e \in StoreIds |-> <<"important">>]
  /\ SetSimulator(NewSimulator)
  /\ NoExecuteCall
  /\ UNCHANGED <<unread, nextHookId, lastOp>>
  /\ UnchangedUI /\ UnchangedSuggestions /\ UnchangedHistory

\* ws.onopen: the socket of the tracker is open
WsOpen ==
  /\ wsState = "connecting"
  /\ SetSvc([Svc EXCEPT !.ws = "open", !.attempts = 0, !.delays = <<>>])
  /\ UNCHANGED lastOp
  /\ UnchangedStore /\ UnchangedUI /\ UnchangedSuggestions /\ UnchangedHooks
  /\ UnchangedHistory

\* the delay grows with the attempt and is never cut
ReconnectDelayUncapped(attempt) == baseDelay * 2^attempt

\* attemptReconnect, the delay of the timer of attempt number `attempt`
ReconnectDelay(attempt) == Min(baseDelay * 2^attempt, maxDelay)

\* a reconnect timer is set after every close
AttemptReconnectAlways(st) ==
  [st EXCEPT !.attempts = @ + 1, !.rpending = TRUE,
             !.delays = Append(@, ReconnectDelay(st.attempts + 1))]

\* attemptReconnect()
AttemptReconnect(st) ==
  IF st.attempts < maxReconnectAttempts
    THEN [st EXCEPT !.attempts = @ + 1, !.rpending = TRUE,
                    !.delays = Append(@, ReconnectDelay(st.attempts + 1))]
    ELSE st

\* ws.onclose (the connection fails or is lost): attemptReconnect()
WsClose ==
  /\ wsState \in {"connecting", "open"}
  /\ SetSvc(AttemptReconnect([Svc EXCEPT !.ws = "closed"]))
  /\ UNCHANGED lastOp
  /\ UnchangedStore /\ UnchangedUI /\ UnchangedSuggestions /\ UnchangedHooks
  /\ UnchangedHistory

\* the timer of attemptReconnect fires: connect()
ReconnectFires ==
  /\ reconnectPending
  /\ SetSvc([Svc EXCEPT !.rpending = FALSE, !.ws = "connecting"])
  /\ UNCHANGED lastOp
  /\ UnchangedStore /\ UnchangedUI /\ UnchangedSuggestions /\ UnchangedHooks
  /\ UnchangedHistory

\* the socket of the disconnected tracker closes (the close disconnect() asked
\* for, or the loss of a connection made later): its onclose handler calls
\* attemptReconnect()
DroppedWsClose ==
  /\ droppedTracker.ws \in {"closing", "connecting", "open"}
  /\ droppedTracker' = AttemptReconnect([droppedTracker EXCEPT !.ws = "closed"])
  /\ UNCHANGED <<tracker, userId, trackerSuggestionCb, trackerConfirmationCb,
                 wsState, reconnectAttempts, reconnectPending, reconnectDelays,
                 pendingActions, debounceTimer, timers, nextSeq, lastOp>>
  /\ UnchangedStore /\ UnchangedUI /\ UnchangedSuggestions /\ UnchangedHooks
  /\ UnchangedHistory

\* a reconnect timer of the disconnected tracker fires: connect()
DroppedReconnectFires ==
  /\ droppedTracker.rpending
  /\ droppedTracker' = [droppedTracker EXCEPT !.rpending = FALSE, !.ws = "connecting"]
  /\ UNCHANGED <<tracker, userId, trackerSuggestionCb, trackerConfirmationCb,
                 wsState, reconnectAttempts, reconnectPending, reconnectDelays,
                 pendingActions, debounceTimer, timers, nextSeq, lastOp>>
  /\ UnchangedStore /\ UnchangedUI /\ UnchangedSuggestions /\ UnchangedHooks
  /\ UnchangedHistory

\* ws.onopen of a socket of the disconnected tracker
DroppedWsOpen ==
  /\ droppedTracker.ws = "connecting"
  /\ droppedTracker' = [droppedTracker EXCEPT !.ws = "open", !.attempts = 0,
                                              !.delays = <<>>]
  /\ UNCHANGED <<tracker, userId, trackerSuggestionCb, trackerConfirmationCb,
                 wsState, reconnectAttempts, reconnectPending, reconnectDelays,
                 pendingActions, debounceTimer, timers, nextSeq, lastOp>>
  /\ UnchangedStore /\ UnchangedUI /\ UnchangedSuggestions /\ UnchangedHooks
  /\ UnchangedHistory

\* the payloads of inbound workflow_suggestion messages: the WorkflowSuggestion
\* type declares no trigger_event ("undefined"); a payload may carry one
Suggestions ==
  [id : SuggestionIds, generated_function : GeneratedCodes,
   trigger_event : TriggerEvents \cup {"undefined"}]

\* debounced tracking, flushes and the hooks they run
NextTracking ==
  \/ \E u \in Users : Initialize(u)
  \/ Disconnect
  \/ \E kind \in TrackedKinds, e \in EmailIds : TrackAction(kind, e)
  \/ \E read \in BOOLEAN, e \in EmailIds : HandleMarkAsRead(read, e)
  \/ Advance
  \/ \E h \in DOMAIN timers : TimerFires(h)
  \/ \E h \in AuthoredHooks : AddWorkflow(h[1], h[2])

\* the suggestion lifecycle and the hooks it installs
NextSuggestions ==
  \/ \E u \in Users : Initialize(u)
  \/ Disconnect
  \/ UIInitialize
  \/ OnSuggestion
  \/ \E sug \in Suggestions : ReceiveSuggestion(sug)
  \/ \E t \in 1..Len(toasts) : AcceptSuggestion(t)
  \/ \E sid \in SuggestionIds : RejectSuggestion(sid)
  \/ AddWorkflow("user_action", "email.star()")
  \/ WsOpen

\* the payloads and hooks while the connection is explored
ChannelSuggestions ==
  [id : SuggestionIds, generated_function : {"email.star()"},
   trigger_event : {"user_action"}]

\* the suggestion lifecycle and hook management over a connection that can
\* fail and reconnect
NextChannel ==
  \/ \E u \in Users : Initialize(u)
  \/ Disconnect
  \/ UIInitialize
  \/ WsOpen
  \/ WsClose
  \/ ReconnectFires
  \/ \E sug \in ChannelSuggestions : ReceiveSuggestion(sug)
  \/ \E t \in 1..Len(toasts) : AcceptSuggestion(t)
  \/ \E sid \in SuggestionIds : RejectSuggestion(sid)
  \/ AddWorkflow("user_action", "email.star()")
  \/ \E id \in 1..MaxHooks : DeleteWorkflow(id)

\* hook management and the execute calls made for emails
NextEmailHooks ==
  \/ \E u \in Users : Initialize(u)
  \/ \E h \in ExecHooks : AddWorkflowWithin(MaxExecHooks, h[1], h[2])
  \/ \E id \in 1..MaxExecHooks, enabled \in BOOLEAN : ToggleWorkflow(id, enabled)
  \/ \E id \in 1..MaxExecHooks : DeleteWorkflow(id)
  \/ \E e \in EmailIds : HandleIncomingEmail(e)
  \/ \E e \in EmailIds : HandleEmailClose(e)

\* the connection of a tracker and of the tracker disconnected before it
NextDisconnect ==
  \/ \E u \in Users : Initialize(u)
  \/ Disconnect
  \/ WsOpen
  \/ WsClose
  \/ ReconnectFires
  \/ DroppedWsClose
  \/ DroppedReconnectFires
  \/ DroppedWsOpen

\* ------------------------------------------------------ EmailSimulator
\* scheduleNextEmail(): a timer is set when an email is pending
ScheduleNextEmail(sim) ==
  IF sim.pending = <<>> THEN sim
  ELSE [sim EXCEPT !.handles = @ + 1,
                   !.interval = sim.handles + 1,
                   !.timers = @ \cup {sim.handles + 1}]

\* EmailSimulator.initialize(): the emails loaded are split, q is the part
\* kept for the simulation
SimulatorInitialize(q) ==
  /\ SetSimulator(IF isInitialized THEN Simulator
                  ELSE [Simulator EXCEPT !.pending = q, !.initialized = TRUE])
  /\ UNCHANGED <<unread, starred, location, tags, lastOp>>
  /\ UnchangedSvc /\ UnchangedUI /\ UnchangedSuggestions /\ UnchangedHooks
  /\ UnchangedHistory

\* startSimulation()
Called(sim) ==
  [sim EXCEPT !.started = TRUE,
              !.with = {sim.pending[i] : i \in 1..Len(sim.pending)}]
StartSimulationSim(sim) ==
  IF ~sim.initialized THEN sim
  ELSE IF sim.interval # 0 THEN Called(sim)
  ELSE ScheduleNextEmail(Called(sim))

StartSimulation ==
  /\ StartSimulationSim(Simulator).handles <= MaxSimulatorStarts
  /\ SetSimulator(StartSimulationSim(Simulator))
  /\ UNCHANGED <<unread, starred, location, tags, lastOp>>
  /\ UnchangedSvc /\ UnchangedUI /\ UnchangedSuggestions /\ UnchangedHooks
  /\ UnchangedHistory

\* stopSimulation()
StopSimulation ==
  /\ SetSimulator(IF simulationInterval # 0
                    THEN [Simulator EXCEPT !.timers = @ \ {simulationInterval},
                                           !.interval = 0, !.started = FALSE,
                                           !.with = {}]
                    ELSE [Simulator EXCEPT !.started = FALSE, !.with = {}])
  /\ UNCHANGED <<unread, starred, location, tags, lastOp>>
  /\ UnchangedSvc /\ UnchangedUI /\ UnchangedSuggestions /\ UnchangedHooks
  /\ UnchangedHistory

\* addToPendingQueue([e]), for an email that was not queued before
AddToPendingQueue(e) ==
  /\ \A i \in 1..Len(pendingEmails) : pendingEmails[i] # e
  /\ \A i \in 1..Len(delivered) : delivered[i] # e
  /\ SetSimulator([Simulator EXCEPT !.pending = Append(@, e)])
  /\ UNCHANGED <<unread, starred, location, tags, lastOp>>
  /\ UnchangedSvc /\ UnchangedUI /\ UnchangedSuggestions /\ UnchangedHooks
  /\ UnchangedHistory

\* simulateReceiveEmail() with an email pending: the email is shifted from
\* the queue and added to the store
Shifted(sim) ==
  [sim EXCEPT !.pending = Tail(@), !.delivered = Append(@, Head(sim.pending))]

\* simulateReceiveEmail(), lines 762-771: handleIncomingEmail(newEmail); sim is
\* the simulator when the caller has finished
ReceiveEmail(sim, ex) ==
  /\ SetSimulator(sim)
  /\ IF userId = "null"
       THEN /\ UNCHANGED <<unread, starred, location, tags>>
            /\ UnchangedSvc /\ UnchangedHooks
       ELSE /\ ResultsHandled(ex, HandleWorkflowResults(World(Svc), ex.results))
            /\ UNCHANGED nextHookId
  /\ UNCHANGED lastOp
  /\ UnchangedUI /\ UnchangedSuggestions /\ UnchangedHistory

\* receiveNextEmail(): simulateReceiveEmail() without the timer
ReceiveNextEmail ==
  /\ pendingEmails # <<>>
  /\ ReceiveEmail(Shifted(Simulator),
                  ExecuteEmailWorkflows(hooks, MailboxEmail(Head(pendingEmails))))

\* the callback of simulator timer h when no email is pending:
\* simulateReceiveEmail() and scheduleNextEmail() both return
SimulatorTimerIdle(h) ==
  /\ h \in simulatorTimers
  /\ pendingEmails = <<>>
  /\ SetSimulator([Simulator EXCEPT !.timers = @ \ {h}])
  /\ UNCHANGED <<unread, starred, location, tags, lastOp>>
  /\ UnchangedSvc /\ UnchangedUI /\ UnchangedSuggestions /\ UnchangedHooks
  /\ UnchangedHistory

\* the callback of simulator timer h when an email is pending:
\* simulateReceiveEmail(), then scheduleNextEmail()
SimulatorTimerDelivers(h) ==
  /\ h \in simulatorTimers
  /\ pendingEmails # <<>>
  /\ ReceiveEmail(ScheduleNextEmail(Shifted([Simulator EXCEPT !.timers = @ \ {h}])),
                  ExecuteEmailWorkflows(hooks, MailboxEmail(Head(pendingEmails))))

\* the callback of simulator timer h
SimulatorTimerFires(h) == SimulatorTimerIdle(h) \/ SimulatorTimerDelivers(h)

\* the simulator with the hooks its deliveries run
NextSimulator ==
  \/ \E u \in Users : Initialize(u)
  \/ AddWorkflowWithin(MaxHooks, "email_received", "email.star()")
  \/ \E q \in InitialQueues : SimulatorInitialize(q)
  \/ StartSimulation
  \/ StopSimulation
  \/ \E e \in CustomEmails : AddToPendingQueue(e)
  \/ ReceiveNextEmail
  \/ \E h \in simulatorTimers : SimulatorTimerFires(h)

\* a gesture, incoming emails and the flushes of the events they and the
\* applier track
NextFeedback ==
  \/ \E u \in Users : Initialize(u)
  \/ \E h \in FeedbackHooks : AddWorkflowWithin(MaxExecHooks, h[1], h[2])
  \/ \E e \in EmailIds : TrackActionWithin(MaxEvents - MaxExecHooks, "star", e)
  \/ \E e \in EmailIds : HandleIncomingEmail(e)
  \/ Advance
  \/ \E h \in DOMAIN timers : TimerFires(h)

\* gestures and their flushes while the user changes or logs out
NextSwitching ==
  \/ \E u \in SwitchUsers : Initialize(u)
  \/ Disconnect
  \/ WsOpen
  \/ \E e \in EmailIds : TrackActionWithin(MaxEvents - 1, "star", e)
  \/ Advance
  \/ \E h \in DOMAIN timers : TimerFires(h)

\* hook management, the execute call made for incoming emails, and page loads
NextPersistence ==
  \/ \E u \in Users : Initialize(u)
  \/ \E code \in PersistedCodes : AddWorkflowWithin(MaxExecHooks, "email_received", code)
  \/ \E id \in 1..MaxExecHooks, enabled \in BOOLEAN : ToggleWorkflow(id, enabled)
  \/ \E id \in 1..MaxExecHooks : DeleteWorkflow(id)
  \/ \E e \in EmailIds : HandleIncomingEmail(e)
  \/ \E v \in {stored, Unreadable} : Reload(v)

\* the coordinator before initialize and after disconnect
NextUninitialised ==
  \/ \E u \in Users : Initialize(u)
  \/ Disconnect
  \/ UIInitialize
  \/ WsOpen
  \/ \E sug \in ChannelSuggestions : ReceiveSuggestion(sug)
  \/ \E sid \in SuggestionIds : RejectSuggestion(sid)
  \/ \E e \in EmailIds : TrackActionWithin(MaxExecEvents, "star", e)
  \/ \E e \in EmailIds : HandleIncomingEmail(e)
  \/ \E e \in EmailIds : HandleEmailClose(e)
  \/ \E trigger \in {"email_received", "email_closed"} :
       AddWorkflow(trigger, "email.star()")

\* the frames that arrive while inbound messages are explored
InboundMessages ==
  {[parses |-> FALSE, type |-> "-", hasData |-> FALSE, data |-> NoData]}
  \cup [parses : {TRUE}, type : {"ping"}, hasData : {FALSE}, data : {NoData}]
  \cup [parses : {TRUE}, type : {"workflow_suggestion"}, hasData : {FALSE},
        data : {NoData}]
  \cup [parses : {TRUE}, type : {"workflow_suggestion"}, hasData : {TRUE},
        data : {EmptySuggestion} \cup ChannelSuggestions]
  \cup [parses : {TRUE}, type : {"suggestion_accepted"}, hasData : {FALSE},
        data : {NoData}]
  \cup [parses : {TRUE}, type : {"suggestion_accepted"}, hasData : {TRUE},
        data : {NoData, [message |-> "Workflow created"]}]

\* frames of every kind arriving on the open socket
NextInbound ==
  \/ \E u \in Users : Initialize(u)
  \/ UIInitialize
  \/ OnSuggestion
  \/ WsOpen
  \/ \E m \in InboundMessages : OnMessage(m)

\* hooks of every kind of body, run on an incoming email and applied
NextApplier ==
  \/ \E u \in Users : Initialize(u)
  \/ \E code \in ApplierCodes : AddWorkflowWithin(MaxApplierHooks, "email_received", code)
  \/ \E e \in EmailIds : HandleIncomingEmail(e)

\* hook management and the three execute calls
NextHooks ==
  \/ NextEmailHooks
  \/ \E e \in EmailIds : TrackActionWithin(MaxExecEvents, "star", e)
  \/ Advance
  \/ \E h \in DOMAIN timers : TimerFires(h)

\* the bodies of the user_action hooks authored while automation is explored
AutomationCodes == {"throw", "email.markRead()"}

\* gestures, their flushes and the user_action hooks the flushes run, whose
\* tokens the applier turns into store calls that may track events themselves
NextAutomation ==
  \/ \E u \in Users : Initialize(u)
  \/ \E code \in AutomationCodes : AddWorkflowWithin(MaxExecHooks, "user_action", code)
  \/ \E e \in EmailIds : TrackActionWithin(MaxEvents - 1, "star", e)
  \/ Advance
  \/ \E h \in DOMAIN timers : TimerFires(h)

Next ==
  \/ NextTracking \/ NextSuggestions \/ NextChannel \/ NextHooks
  \/ NextApplier \/ NextInbound \/ NextUninitialised \/ NextAutomation
  \/ NextPersistence \/ NextDisconnect \/ NextSwitching \/ NextFeedback
  \/ NextSimulator

SpecTracking == Init /\ [][NextTracking]_vars
SpecSuggestions == Init /\ [][NextSuggestions]_vars
SpecChannel == Init /\ [][NextChannel]_vars
SpecHooks == Init /\ [][NextHooks]_vars
SpecEmailHooks == Init /\ [][NextEmailHooks]_vars
SpecApplier == Init /\ [][NextApplier]_vars
SpecInbound == Init /\ [][NextInbound]_vars
SpecUninitialised == Init /\ [][NextUninitialised]_vars
SpecPersistence == Init /\ [][NextPersistence]_vars
SpecDisconnect == Init /\ [][NextDisconnect]_vars
SpecSwitching == Init /\ [][NextSwitching]_vars
\* a timer is due: its callback can run
TimerDue == \E h \in DOMAIN timers : timers[h] = 0

\* the event loop runs the callback of every due timer: weak fairness of
\* TimerFires, written with the condition under which it is enabled
TimersFire ==
  \/ []<>(~TimerDue)
  \/ []<><<\E h \in DOMAIN timers : TimerFires(h)>>_vars

\* time passes and due timers fire
SpecAutomation ==
  /\ Init /\ [][NextAutomation]_vars
  /\ WF_vars(Advance)
  /\ TimersFire
\* time passes and due timers fire
SpecFeedback ==
  /\ Init /\ [][NextFeedback]_vars
  /\ WF_vars(Advance)
  /\ TimersFire
\* a simulator timer that was set and not cleared fires: weak fairness of
\* the callback, for each of its two cases
SimulatorTimersFire ==
  /\ WF_vars(\E h \in simulatorTimers : SimulatorTimerIdle(h))
  /\ \/ []<>(simulatorTimers = {} \/ pendingEmails = <<>>)
     \/ []<><<\E h \in simulatorTimers : SimulatorTimerDelivers(h)>>_vars
SpecSimulator ==
  /\ Init /\ [][NextSimulator]_vars
  /\ SimulatorTimersFire
Spec == Init /\ [][Next]_vars

\* ============================================================== properties
Seqs(q) == {q[i].seq : i \in 1..Len(q)}
Tracked == 1..nextSeq
Increasing(q) == \A i \in 1..Len(q) : \A j \in 1..Len(q) : i < j => q[i].seq < q[j].seq
UserActionHookEnabled ==
  \E i \in 1..Len(hooks) : hooks[i].enabled /\ hooks[i].trigger_event = "user_action"

\* C1: the events of one burst (each less than DEBOUNCE_DELAY after the one
\* before) are handed to the channel by exactly one flush, all of them and in
\* tracking order: an event that came less than DEBOUNCE_DELAY after its
\* predecessor is in the same flush as the predecessor, no event is in two
\* flushes, and once the window has elapsed with nothing pending every
\* tracked event has had its flush.
C1_OneFlushPerBurst ==
  /\ \A i \in 1..Len(pendingActions) :
       pendingActions[i].short => (pendingActions[i].seq - 1) \notin sentSeqs
  /\ \A i \in 1..Len(lastFlush.batch) :
       lastFlush.batch[i].short =>
         (lastFlush.batch[i].seq - 1) \in Seqs(lastFlush.sent)
  /\ Seqs(lastFlush.sent) \cap lastFlush.sentBefore = {}
  /\ Increasing(lastFlush.sent)
  /\ Seqs(lastFlush.sent) = Seqs(lastFlush.batch)
  /\ (DOMAIN timers = {} /\ pendingActions = <<>>) => sentSeqs = Tracked

\* C2: no accepted event is discarded: every event appended to the pending
\* batch is still pending or has been handed to the channel client.
C2_NoEventDiscarded ==
  \A n \in Tracked : n \in Seqs(pendingActions) \/ n \in sentSeqs

\* C3: across all flushes the events handed to the channel client are in
\* tracking order and none is handed twice: each flush hands its events in
\* increasing order, all of them later than every event handed before.
C3_SentInOrderNoDuplicates ==
  /\ Increasing(lastFlush.sent)
  /\ \A n \in Seqs(lastFlush.sent) : \A m \in lastFlush.sentBefore : m < n

\* a second flush, of two events
C3_Witness ==
  /\ lastFlush.sentBefore # {}
  /\ Len(lastFlush.sent) >= 2

\* C4: at most one flush timer is outstanding, and no flush fires sooner than
\* DEBOUNCE_DELAY after the most recently tracked event.
C4_SingleTimerNoEarlyFlush ==
  /\ Cardinality(DOMAIN timers) <= 1
  /\ ~lastFlush.early

\* C5: a flush passes at most one event to executeActionWorkflows, and only
\* the last event of its batch; every hook runs at most once in a flush.
C5_OnlyLastEventAnalyzed ==
  LET f == lastFlush
  IN /\ Len(f.analyzed) <= 1
     /\ \A k \in 1..Len(f.analyzed) : f.analyzed[k] = f.batch[Len(f.batch)].seq
     /\ (f.analyzed = <<>> => f.executed = <<>>)
     /\ \A j \in 1..Len(f.executed) : \A k \in 1..Len(f.executed) :
          j # k => f.executed[j] # f.executed[k]

\* a flush whose last event is ineligible and an earlier one eligible, with
\* a user_action hook ready to run
C5_Witness ==
  /\ UserActionHookEnabled
  /\ Len(lastFlush.batch) >= 2
  /\ lastFlush.batch[Len(lastFlush.batch)].action = "open"
  /\ lastFlush.batch[1].action = "star"
  /\ lastFlush.analyzed = <<>>

C6_Allowlist ==
  {"star", "unstar", "delete", "archive", "add_label", "remove_label",
   "mark_read", "mark_unread", "move_to_spam", "move_to_trash"}

\* C6: hooks run only for an event whose kind is in the allowlist; an event
\* of any other kind is still handed to the channel client and runs no hook.
C6_OnlyAllowlistedKindsAnalyzed ==
  /\ \A kind \in ActionKinds : ShouldAnalyzeForPatterns(kind) => kind \in C6_Allowlist
  /\ lastFlush.batch # <<>> =>
       LET f == lastFlush
           last == f.batch[Len(f.batch)]
       IN /\ (last.action \notin C6_Allowlist => f.analyzed = <<>> /\ f.executed = <<>>)
          /\ \A j \in 1..Len(f.batch) : f.batch[j].seq \in Seqs(f.sent)

\* a flush of an "open" event while a user_action hook is enabled
C6_Witness ==
  /\ UserActionHookEnabled
  /\ lastFlush.batch # <<>>
  /\ lastFlush.batch[Len(lastFlush.batch)].action = "open"
  /\ lastFlush.executed = <<>>
  /\ lastFlush.batch[Len(lastFlush.batch)].seq \in Seqs(lastFlush.sent)

\* positions of the steps of kind k for id in the last operation
StepsAt(k, id) ==
  {i \in 1..Len(lastOp.steps) : lastOp.steps[i].k = k /\ lastOp.steps[i].id = id}
CleanupCalls == {i \in 1..Len(lastOp.steps) : lastOp.steps[i].k = "cleanup"}

\* C7: the active-suggestion set never holds more than one suggestion id.
C7_AtMostOneActive == Len(activeSuggestionIds) <= 1

\* C8: when suggestion S2 arrives while S1 is active, the cleanup callback is
\* called exactly once for S1, and the active set is cleared (S1 removed)
\* before S2 is added to it and before the suggestion callback is called
\* for S2.
C8_CleanupBeforeActivation ==
  lastOp.op = "suggestion" =>
    \A i \in 1..Len(lastOp.before) :
      LET s1 == lastOp.before[i]
      IN s1 # lastOp.id =>
           /\ Cardinality(StepsAt("cleanup", s1)) = 1
           /\ Cardinality(StepsAt("clear", "-")) = 1
           /\ Cardinality(StepsAt("add", lastOp.id)) = 1
           /\ Cardinality(StepsAt("callback", lastOp.id)) = 1
           /\ \A c \in StepsAt("cleanup", s1) : \A r \in StepsAt("clear", "-") :
                \A a \in StepsAt("add", lastOp.id) :
                  \A u \in StepsAt("callback", lastOp.id) :
                    c < r /\ r < a /\ a < u
           /\ ~InSeq(s1, lastOp.after)

\* C9: accepting S1 while S1 is active calls the cleanup callback exactly once
\* for S1 and for no other id, and leaves the active set empty.
C9_AcceptClearsActive ==
  (lastOp.op = "accept" /\ InSeq(lastOp.id, lastOp.before)) =>
    /\ Cardinality(StepsAt("cleanup", lastOp.id)) = 1
    /\ Cardinality(CleanupCalls) = 1
    /\ lastOp.after = <<>>
    /\ activeSuggestionIds = <<>>

\* S1 was active when its Accept button was clicked
C9_Witness ==
  /\ lastOp.op = "accept"
  /\ InSeq(lastOp.id, lastOp.before)
  /\ activeSuggestionIds = <<>>

\* C10: accepting a suggestion installs exactly one new hook, with the
\* suggestion's generated_function as function_code, enabled, never executed,
\* and with a trigger_event that some trigger selects.
C10_AcceptInstallsSelectableHook ==
  lastOp.op = "accept" =>
    /\ Len(lastOp.hooksAfter) = Len(lastOp.hooksBefore) + 1
    /\ \A i \in 1..Len(lastOp.hooksBefore) : lastOp.hooksAfter[i] = lastOp.hooksBefore[i]
    /\ LET h == lastOp.hooksAfter[Len(lastOp.hooksAfter)]
       IN /\ h.function_code = lastOp.suggestion.generated_function
          /\ h.enabled
          /\ h.execution_count = 0
          /\ h.trigger_event \in {"email_received", "email_closed", "user_action"}
          /\ GetHooksForTrigger(<<h>>, h.trigger_event) = <<1>>

\* the messages of type t the last operation sent over the channel
SentOfType(t) == {i \in 1..Len(lastOp.sent) : lastOp.sent[i].type = t}

\* C11: every acceptance of a suggestion sends exactly one suggestion_response
\* {suggestion_id, accepted: true} over the channel, whatever the state of
\* the connection when the Accept button is clicked.
C11_AcceptanceAlwaysAnswered ==
  lastOp.op = "accept" =>
    /\ Cardinality(SentOfType("suggestion_response")) = 1
    /\ \A i \in SentOfType("suggestion_response") :
         /\ lastOp.sent[i].suggestion_id = lastOp.id
         /\ lastOp.sent[i].accepted

\* an acceptance that was answered once
C11_Witness ==
  /\ lastOp.op = "accept"
  /\ Cardinality(SentOfType("suggestion_response")) = 1

\* C12: creating a hook directly through addWorkflow while a suggestion is
\* active calls the cleanup callback once for the active suggestion and
\* clears the active set: when addWorkflow returns no suggestion is active.
C12_AddWorkflowClearsActive ==
  (lastOp.op = "addWorkflow" /\ lastOp.before # <<>>) =>
    /\ \A i \in 1..Len(lastOp.before) :
         Cardinality(StepsAt("cleanup", lastOp.before[i])) = 1
    /\ Cardinality(CleanupCalls) = Len(lastOp.before)
    /\ lastOp.after = <<>>

\* a hook was created directly while s1 was active, and s1 was cleaned up
C12_Witness ==
  /\ lastOp.op = "addWorkflow"
  /\ lastOp.before = <<"s1">>
  /\ Cardinality(StepsAt("cleanup", "s1")) = 1
  /\ activeSuggestionIds = <<>>

\* C13: every hook addition (addWorkflow, also the one an acceptance makes)
\* and every successful hook deletion on an initialised coordinator sends one
\* current_workflows message over the channel, listing exactly the hooks the
\* executor holds afterwards.
C13_HookMutationPushesSummary ==
  [][(/\ tracker # "null"
      /\ \/ \E trigger \in TriggerEvents, code \in Codes : AddWorkflow(trigger, code)
         \/ \E t \in 1..Len(toasts) : AcceptSuggestion(t)
         \/ \E id \in 1..MaxHooks : DeleteWorkflow(id) /\ lastOp'.success)
     => /\ Cardinality({i \in 1..Len(lastOp'.sent) :
                          lastOp'.sent[i].type = "current_workflows"}) = 1
        /\ \A i \in 1..Len(lastOp'.sent) :
             lastOp'.sent[i].type = "current_workflows" =>
               lastOp'.sent[i].workflows = GetCurrentWorkflows(hooks')]_vars

\* C14: rejecting an active suggestion takes it out of the suggested state:
\* a rejected id is not in the active set, and no later operation calls the
\* cleanup callback for it.
C14_RejectedLeavesActiveSet ==
  \A sid \in rejected :
    /\ ~InSeq(sid, activeSuggestionIds)
    /\ (lastOp.op \in {"suggestion", "accept", "addWorkflow"} =>
          StepsAt("cleanup", sid) = {})

\* s1 was rejected while it was active
C14_Witness ==
  /\ lastOp.op = "reject"
  /\ lastOp.id = "s1"
  /\ "s1" \in rejected

\* ------------------------------------------------------- hook execution
\* the hook of the list hs with the given id (hook ids are unique)
HookById(hs, id) == hs[CHOOSE j \in 1..Len(hs) : hs[j].id = id]
HasHook(hs, id) == \E j \in 1..Len(hs) : hs[j].id = id
PositionOf(hs, id) == CHOOSE j \in 1..Len(hs) : hs[j].id = id
CallTrigger ==
  [executeEmailWorkflows |-> "email_received",
   executeEmailCloseWorkflows |-> "email_closed",
   executeActionWorkflows |-> "user_action"]
RunSteps == {i \in 1..Len(lastExec.trace) : lastExec.trace[i].k = "run"}
SaveCalls == {i \in 1..Len(lastExec.trace) : lastExec.trace[i].k = "save"}
Succeeded(results, id) ==
  Cardinality({i \in 1..Len(results) : results[i].hook_id = id /\ results[i].success})

\* C15: a hook executes only on the trigger it is registered for: in every
\* execute call each hook that ran and each WorkflowResult belongs to a hook
\* whose trigger_event is the trigger of that call, and the stats of the
\* hooks of other triggers are untouched.
C15_OnlyRegisteredTrigger ==
  lastExec.call # "none" =>
    /\ lastExec.trigger = CallTrigger[lastExec.call]
    /\ \A i \in 1..Len(lastExec.results) :
         /\ HasHook(lastExec.hooksBefore, lastExec.results[i].hook_id)
         /\ HookById(lastExec.hooksBefore, lastExec.results[i].hook_id).trigger_event
              = lastExec.trigger
    /\ \A i \in RunSteps :
         HookById(lastExec.hooksBefore, lastExec.trace[i].id).trigger_event
           = lastExec.trigger
    /\ \A j \in 1..Len(lastExec.hooksBefore) :
         lastExec.hooksBefore[j].trigger_event # lastExec.trigger =>
           lastExec.hooks[j] = lastExec.hooksBefore[j]

\* an execute call ran one hook while an enabled hook of another trigger was present
C15_Witness ==
  /\ lastExec.call = "executeEmailWorkflows"
  /\ Len(lastExec.results) = 1
  /\ \E j \in 1..Len(lastExec.hooksBefore) :
       /\ lastExec.hooksBefore[j].enabled
       /\ lastExec.hooksBefore[j].trigger_event = "email_closed"

\* C16: for one trigger the enabled matching hooks run in hook-list order,
\* one at a time, and the result list has exactly one entry per such hook in
\* the same order.
C16_ListOrderOneResultEach ==
  lastExec.call # "none" =>
    LET hs == lastExec.hooksBefore
        matching == {j \in 1..Len(hs) :
                       hs[j].enabled /\ hs[j].trigger_event = lastExec.trigger}
        res == lastExec.results
    IN /\ Len(res) = Cardinality(matching)
       /\ {PositionOf(hs, res[i].hook_id) : i \in 1..Len(res)} = matching
       /\ \A i \in 1..Len(res) : \A k \in 1..Len(res) :
            i < k => PositionOf(hs, res[i].hook_id) < PositionOf(hs, res[k].hook_id)
       /\ Cardinality(RunSteps) = Len(res)
       /\ \A i \in 1..Len(res) :
            i \in RunSteps /\ lastExec.trace[i].id = res[i].hook_id

\* an execute call ran two hooks
C16_Witness ==
  /\ lastExec.call # "none"
  /\ Len(lastExec.results) = 2
  /\ lastExec.results[1].hook_id # lastExec.results[2].hook_id

\* C17: when hook A throws and hook B, later in the list for the same
\* trigger, does not, B still runs: B's result is success with B's recorded
\* tokens, and those tokens are forwarded to applyWorkflowActions.
C17_FailureDoesNotStopSiblings ==
  lastExec.call # "none" =>
    LET hs == lastExec.hooksBefore
        matching == {j \in 1..Len(hs) :
                       hs[j].enabled /\ hs[j].trigger_event = lastExec.trigger}
        Throws(j) == RunCode(hs[j].function_code, 0).threw
    IN \A a \in matching : \A b \in matching :
         (a < b /\ Throws(a) /\ ~Throws(b)) =>
           /\ \E i \in 1..Len(lastExec.results) :
                /\ lastExec.results[i].hook_id = hs[b].id
                /\ lastExec.results[i].success
                /\ lastExec.results[i].actions_taken
                     = RunCode(hs[b].function_code, 0).tokens
           /\ RunCode(hs[b].function_code, 0).tokens # <<>> =>
                \E i \in 1..Len(lastExec.applied) :
                  /\ lastExec.applied[i].hook_id = hs[b].id
                  /\ lastExec.applied[i].tokens
                       = RunCode(hs[b].function_code, 0).tokens

\* the first hook failed, the second succeeded and its tokens were forwarded
C17_Witness ==
  /\ Len(lastExec.results) = 2
  /\ ~lastExec.results[1].success
  /\ lastExec.results[2].success
  /\ \E i \in 1..Len(lastExec.applied) :
       lastExec.applied[i].hook_id = lastExec.results[2].hook_id

\* C18: when a hook body throws an exception with message m, its result is
\* {success: false, actions_taken: [], error: m}, with m the message of the
\* hook body's own exception, and none of the tokens it recorded before
\* throwing is forwarded to applyWorkflowActions.
C18_FailureCarriesHookMessage ==
  \A i \in 1..Len(lastExec.results) :
    LET r == lastExec.results[i]
        body == RunCode(HookById(lastExec.hooksBefore, r.hook_id).function_code, 0)
    IN body.threw =>
         /\ ~r.success
         /\ r.actions_taken = <<>>
         /\ r.error = body.message
         /\ \A k \in 1..Len(lastExec.applied) : lastExec.applied[k].hook_id # r.hook_id

\* a hook that recorded a token and then threw has a failed result
C18_Witness ==
  \E i \in 1..Len(lastExec.results) :
    /\ ~lastExec.results[i].success
    /\ HookById(lastExec.hooksBefore, lastExec.results[i].hook_id).function_code
         = "email.star(); throw"

\* C19: a hook's execution_count is the number of its successful executions
\* since it was added: a new hook starts at 0, every successful execution
\* adds exactly 1 and sets last_executed, and a failed execution and every
\* other operation change neither field.
C19_CountEqualsSuccesses ==
  [][/\ \A i \in 1..Len(hooks) : \A j \in 1..Len(hooks') :
          hooks[i].id = hooks'[j].id =>
            LET succ == IF lastExec'.call # "none"
                          THEN Succeeded(lastExec'.results, hooks[i].id)
                          ELSE 0
            IN /\ hooks'[j].execution_count = hooks[i].execution_count + succ
               /\ succ > 0 => hooks'[j].last_executed = "date"
               /\ succ = 0 => hooks'[j].last_executed = hooks[i].last_executed
     /\ \A j \in 1..Len(hooks') :
          ~HasHook(hooks, hooks'[j].id) =>
            /\ hooks'[j].execution_count = 0
            /\ hooks'[j].last_executed = "undefined"]_vars

\* one call in which one hook succeeded (counted) and another failed (not counted)
C19_Witness ==
  /\ Len(lastExec.results) = 2
  /\ \E i \in 1..2 : \E k \in 1..2 :
       /\ lastExec.results[i].success
       /\ ~lastExec.results[k].success
       /\ HookById(lastExec.hooks, lastExec.results[i].hook_id).execution_count = 1
       /\ HookById(lastExec.hooks, lastExec.results[k].hook_id).execution_count = 0

\* C20: an execute call persists the hook list once, after its last hook has
\* run, when at least one hook succeeded, and not at all when none succeeded.
C20_OneSavePerCall ==
  lastExec.call # "none" =>
    /\ Cardinality(SaveCalls) =
         (IF \E i \in 1..Len(lastExec.results) : lastExec.results[i].success
            THEN 1 ELSE 0)
    /\ \A sv \in SaveCalls : \A r \in RunSteps : r < sv

\* a call in which two hooks succeeded saved once
C20_Witness ==
  /\ Len(lastExec.results) = 2
  /\ lastExec.results[1].success
  /\ lastExec.results[2].success
  /\ Cardinality(SaveCalls) = 1

\* ---------------------------------------------------------------------------
\* the two phases of an execute call, the tokens and the applier
\* ---------------------------------------------------------------------------
ApplySteps == {i \in 1..Len(lastExec.trace) : lastExec.trace[i].k = "apply"}
\* the store operations of one execute call, result by result
RECURSIVE OpsOf(_)
OpsOf(applied) ==
  IF applied = <<>> THEN <<>> ELSE Head(applied).ops \o OpsOf(Tail(applied))

\* C21: while the hooks of one execute call run, no store operation is
\* performed and every hook observes the email as it was handed to the call;
\* the store is changed only afterwards, from the complete list of results.
C21_TwoPhases ==
  lastExec.call # "none" =>
    /\ \A i \in 1..Len(lastExec.results) :
          lastExec.results[i].observed = lastExec.email
    /\ \A i \in RunSteps : \A j \in ApplySteps : i < j
    /\ \A j \in 1..Len(lastExec.applied) :
          \E i \in 1..Len(lastExec.results) :
             /\ lastExec.results[i].hook_id = lastExec.applied[j].hook_id
             /\ lastExec.results[i].success
    /\ lastExec.ops = OpsOf(lastExec.applied)

\* a first hook starred the email, a second hook that stars only an unstarred
\* email still saw it unstarred, and both were applied afterwards
C21_Witness ==
  /\ lastExec.call = "executeEmailWorkflows"
  /\ Len(lastExec.results) = 2
  /\ lastExec.results[1].actions_taken = <<Text("star"), Text("add_label") \o Text("") \o Text("x"), Text("archive")>>
  /\ lastExec.results[2].actions_taken = <<Text("star")>>
  /\ ~lastExec.results[2].observed.starred
  /\ Len(lastExec.applied) = 2
  /\ Len(lastExec.ops) = 3

\* the intent-method calls the body of the hook of a result made
CallsOf(r) ==
  CallsMade(Body(HookById(lastExec.hooksBefore, r.hook_id).function_code),
            r.observed)
\* the token the interface documents for a call
TokenFor(call) ==
  CASE call.m = "archive" -> Text("archive")
    [] call.m = "delete" -> Text("delete")
    [] call.m = "star" -> Text("star")
    [] call.m = "unstar" -> Text("unstar")
    [] call.m = "markRead" -> Text("mark_read")
    [] call.m = "markUnread" -> Text("mark_unread")
    [] call.m = "moveToSpam" -> Text("move_to_spam")
    [] call.m = "moveToTrash" -> Text("move_to_trash")
    [] call.m = "addLabel" -> Text("add_label") \o call.arg
    [] call.m = "removeLabel" -> Text("remove_label") \o call.arg
LabelCall(call) == call.m \in {"addLabel", "removeLabel"}
NamesALabel(call) == call.arg # <<>> /\ call.arg # <<"">>
RECURSIVE TokensFor(_)
TokensFor(calls) ==
  IF calls = <<>> THEN <<>>
  ELSE (IF LabelCall(Head(calls)) /\ ~NamesALabel(Head(calls))
          THEN <<>> ELSE <<TokenFor(Head(calls))>>)
       \o TokensFor(Tail(calls))

\* C22 as stated: the actions_taken of a successful result has one token per
\* intent-method call of the hook body, in call order.
C22_OneTokenPerCall ==
  \A i \in 1..Len(lastExec.results) :
    LET r == lastExec.results[i]
    IN r.success =>
         /\ Len(r.actions_taken) = Len(CallsOf(r))
         /\ \A k \in 1..Len(r.actions_taken) :
               r.actions_taken[k] = TokenFor(CallsOf(r)[k])

\* C22 amended: the actions_taken of a successful result is the sequence of
\* tokens of the intent-method calls of the hook body, in call order, one per
\* call, except that addLabel / removeLabel called with an empty label or a
\* value that is not a string records nothing; a body that calls no intent
\* method yields success with an empty list.
C22_OneTokenPerCallNamingALabel ==
  \A i \in 1..Len(lastExec.results) :
    LET r == lastExec.results[i]
        calls == CallsOf(r)
        threw == calls # <<>> /\ calls[Len(calls)].m = "throw"
    IN /\ r.success <=> ~threw
       /\ r.success => r.actions_taken = TokensFor(calls)
       /\ calls = <<>> => r.success /\ r.actions_taken = <<>>

\* one call handed results of: a body of four calls, and a body whose
\* addLabel('') recorded nothing before star()
C22_Witness ==
  /\ Len(lastExec.results) = 2
  /\ lastExec.results[1].success /\ lastExec.results[2].success
  /\ lastExec.results[1].actions_taken =
       <<Text("delete"), Text("unstar"), Text("mark_unread"), Text("move_to_trash")>>
  /\ Len(CallsOf(lastExec.results[2])) = 2
  /\ CallsOf(lastExec.results[2])[1] = CallWith("addLabel", Text(""))
  /\ lastExec.results[2].actions_taken = <<Text("star")>>

\* the tokens without a label, and the tokens that carry one
SimpleTokens ==
  {Text("archive"), Text("delete"), Text("star"), Text("unstar"),
   Text("mark_read"), Text("mark_unread"), Text("move_to_spam"),
   Text("move_to_trash")}
IsSimpleToken(t) == t \in SimpleTokens
IsLabelToken(t) == Len(t) >= 2 /\ t[1] \in {"add_label", "remove_label"}
\* the label name a label token carries after the separator
LabelOf(t) == Tail(t)
IsTagOp(op) == op.op \in {"addTag", "removeTag"}
IsOtherOp(op) == ~IsTagOp(op)
\* the tag of the store named by a label
Names(tag, label) == label = Text(tag) \/ (label = Text("Work") /\ tag = "work")
\* the store call op is the Mailbox operation the token t asks for
Performs(op, t) ==
  CASE t = Text("archive") -> op.op = "moveEmail" /\ op.arg = "archive"
    [] t = Text("delete") ->
         \/ op.op = "deleteEmail"
         \/ op.op = "moveEmail" /\ op.arg = "trash"
    [] t \in {Text("star"), Text("unstar")} -> op.op = "toggleStarred"
    [] t = Text("mark_read") -> op.op = "markAsRead" /\ op.arg = "true"
    [] t = Text("mark_unread") -> op.op = "markAsRead" /\ op.arg = "false"
    [] t = Text("move_to_spam") -> op.op = "moveEmail" /\ op.arg = "spam"
    [] t = Text("move_to_trash") -> op.op = "moveEmail" /\ op.arg = "trash"
    [] IsLabelToken(t) /\ t[1] = "add_label" ->
         op.op = "addTag" /\ Names(op.arg, LabelOf(t))
    [] IsLabelToken(t) /\ t[1] = "remove_label" ->
         op.op = "removeTag" /\ Names(op.arg, LabelOf(t))
    [] OTHER -> FALSE
\* the store calls ops are, one for one and in order, what the tokens ask for
PerformAll(ops, tokens, e) ==
  /\ Len(ops) = Len(tokens)
  /\ \A k \in 1..Len(ops) :
        k <= Len(tokens) => ops[k].email = e /\ Performs(ops[k], tokens[k])
\* where the store calls of the latest execute call leave the email
MovesTo(e) ==
  LET ms == SelectSeq(lastExec.ops, LAMBDA op : op.op \in {"moveEmail", "deleteEmail"})
  IN IF ms = <<>> THEN lastExec.email.id # e \/ location[e] = "inbox"
     ELSE location[e] = (IF ms[Len(ms)].op = "deleteEmail" THEN "trash"
                         ELSE ms[Len(ms)].arg)
TogglesOf(e) ==
  LET ts == SelectSeq(lastExec.ops, LAMBDA op : op.op = "toggleStarred")
  IN starred[e] = (IF Len(ts) % 2 = 1 THEN ~lastExec.email.starred
                   ELSE lastExec.email.starred)

\* C23: the applier performs, for each of the tokens archive, delete, star,
\* unstar, mark_read, mark_unread, move_to_spam and move_to_trash of a result,
\* one store operation on the email of the result (move to archive, move to
\* trash, toggle star, mark read or unread, move to spam, move to trash), in
\* the order of the list, and changes no other email.
C23_OneOperationPerToken ==
  lastExec.call # "none" =>
    /\ \A j \in 1..Len(lastExec.applied) :
          LET a == lastExec.applied[j]
          IN PerformAll(SelectSeq(a.ops, IsOtherOp),
                        SelectSeq(a.tokens, IsSimpleToken), a.email_id)
    /\ Len(lastExec.applied) = 1 =>
          MovesTo(lastExec.email.id) /\ TogglesOf(lastExec.email.id)
    /\ \A e \in StoreIds \ {lastExec.email.id} :
          /\ unread[e] /\ ~starred[e]
          /\ location[e] = "inbox" /\ tags[e] = <<"important">>

\* archive, star, mark_read and move_to_spam of one result took effect in order
C23_Witness ==
  /\ Len(lastExec.applied) = 1
  /\ lastExec.applied[1].tokens =
       <<Text("archive"), Text("star"), Text("mark_read"), Text("move_to_spam")>>
  /\ Len(lastExec.applied[1].ops) = 4
  /\ location[1] = "spam" /\ starred[1] /\ ~unread[1]
  /\ location[2] = "inbox"

\* the tokens of a result that carry a non-empty label name
NamesLabel(t) == IsLabelToken(t) /\ LabelOf(t) # Text("")

\* C24: for every token add_label:<L> or remove_label:<L> of a result with a
\* non-empty label name L, the applier performs one addTag or removeTag
\* operation with the label L, whatever label a hook recorded.
C24_OneTagOperationPerLabelToken ==
  \A j \in 1..Len(lastExec.applied) :
    LET a == lastExec.applied[j]
    IN PerformAll(SelectSeq(a.ops, IsTagOp), SelectSeq(a.tokens, NamesLabel),
                  a.email_id)

\* add_label:todo was handed to the applier and no store call was made
C24_TodoDropped ==
  /\ Len(lastExec.applied) = 1
  /\ lastExec.applied[1].tokens = <<Text("add_label") \o Text("todo")>>
  /\ lastExec.applied[1].ops = <<>>
  /\ tags[1] = <<"important">>

\* a token no branch of the applier handles, or a label token whose label
\* name is empty where the applier reads it
Malformed(t) ==
  \/ ~IsSimpleToken(t) /\ ~IsLabelToken(t)
  \/ IsLabelToken(t) /\ t[2] = ""
WellFormed(t) == ~Malformed(t)

\* C25: an unknown or malformed token of a result performs no store
\* operation, and every other token of the result, before and after it, is
\* still applied, in order.
C25_MalformedTokenSkipped ==
  \A j \in 1..Len(lastExec.applied) :
    LET a == lastExec.applied[j]
    IN (\E k \in 1..Len(a.tokens) : Malformed(a.tokens[k])) =>
         PerformAll(a.ops, SelectSeq(a.tokens, WellFormed), a.email_id)

\* star, a malformed label token and archive: the two tokens around the
\* malformed one were applied
C25_Witness ==
  /\ Len(lastExec.applied) = 1
  /\ Len(lastExec.applied[1].tokens) = 3
  /\ Malformed(lastExec.applied[1].tokens[2])
  /\ Len(lastExec.applied[1].ops) = 2
  /\ starred[1] /\ location[1] = "archive"

\* C26: for each result handed to the applier there is one notification
\* when at least one of its tokens was applied and none when none was, and
\* the summary of the notification lists every applied token.
C26_OneNotificationPerResult ==
  lastExec.call # "none" =>
    /\ \A j \in 1..Len(lastExec.applied) :
          LET a == lastExec.applied[j]
          IN /\ Len(a.feedback) = (IF a.ops # <<>> THEN 1 ELSE 0)
             /\ a.ops # <<>> =>
                   /\ a.feedback[1].hook_id = a.hook_id
                   /\ Len(a.feedback[1].summary) = Len(a.ops)
    /\ Len(lastExec.feedback) =
         Cardinality({j \in 1..Len(lastExec.applied) : lastExec.applied[j].ops # <<>>})

\* a result of four applied tokens gave one notification, and a result whose
\* only token was not applied gave none
C26_Witness ==
  /\ Len(lastExec.applied) = 2
  /\ Len(lastExec.applied[1].ops) = 4
  /\ Len(lastExec.applied[1].feedback) = 1
  /\ Len(lastExec.applied[1].feedback[1].summary) = 4
  /\ lastExec.applied[2].ops = <<>>
  /\ lastExec.applied[2].feedback = <<>>
  /\ Len(lastExec.feedback) = 1

\* ---------------------------------------------------------------------------
\* reconnection
\* ---------------------------------------------------------------------------

\* C27: between two opens of the socket (or from the construction of the
\* tracker) at most maxReconnectAttempts reconnect timers are set; once that
\* many have been set, a later close sets none.
C27_BoundedReconnects ==
  /\ Len(reconnectDelays) <= maxReconnectAttempts
  /\ Len(reconnectDelays) = reconnectAttempts
  /\ reconnectPending => reconnectDelays # <<>>

\* the fifth attempt was made, its connection closed too, and no timer is set
C27_Witness ==
  /\ Len(reconnectDelays) = maxReconnectAttempts
  /\ wsState = "closed"
  /\ ~reconnectPending

\* C28: the delay before reconnect attempt k is the smaller of
\* baseDelay * 2^k and maxDelay: the delays never decrease and never exceed
\* maxDelay.
C28_BackoffDelays ==
  /\ \A k \in 1..Len(reconnectDelays) :
        /\ reconnectDelays[k] =
             (IF baseDelay * 2^k < maxDelay THEN baseDelay * 2^k ELSE maxDelay)
        /\ reconnectDelays[k] <= maxDelay
  /\ \A k \in 1..(Len(reconnectDelays) - 1) :
        reconnectDelays[k] <= reconnectDelays[k + 1]

\* five attempts: 2, 4, 8 and 16 seconds, then the largest delay
C28_Witness ==
  /\ Len(reconnectDelays) = 5
  /\ reconnectDelays[1] = 2 * baseDelay
  /\ reconnectDelays[4] = 16 * baseDelay
  /\ reconnectDelays[5] = maxDelay

\* ---------------------------------------------------------------------------
\* inbound messages
\* ---------------------------------------------------------------------------
\* a message of a known type that carries what its type requires
ValidMessage(m) ==
  /\ m.parses /\ m.hasData
  /\ \/ m.type = "workflow_suggestion" /\ m.data \in ChannelSuggestions
     \/ m.type = "suggestion_accepted" /\ m.data.message # "undefined"
\* the tracker held a callback for the message when it arrived
Registered(m) ==
  IF m.type = "workflow_suggestion" THEN lastOp.onSuggestion # "none"
  ELSE lastOp.onConfirmation # "none"

\* C29: a message of unknown type, an unparsable frame or a message of a
\* known type with a malformed payload calls no callback and changes nothing,
\* and a valid workflow_suggestion or suggestion_accepted message, whatever
\* came before it, is handed to its registered callback.
C29_BadMessagesDropped ==
  lastOp.op = "message" =>
    IF ValidMessage(lastOp.message)
      THEN Registered(lastOp.message) =>
             /\ Len(lastOp.calls) = 1
             /\ lastOp.calls[1].arg = lastOp.message.data
      ELSE lastOp.calls = <<>> /\ lastOp.steps = <<>>

\* a workflow_suggestion whose data has no member was handed to the callback:
\* the toast of the suggestion shown before it was closed, an id "undefined"
\* is tracked and the consumer showed a toast for it
C29_Witness ==
  /\ lastOp.op = "message"
  /\ lastOp.message.type = "workflow_suggestion"
  /\ lastOp.message.data = EmptySuggestion
  /\ Len(lastOp.calls) = 1
  /\ Len(lastOp.before) = 1
  /\ activeSuggestionIds = <<"undefined">>
  /\ Len(toasts) = 2 /\ ~toasts[1].open /\ toasts[2].open

\* ---------------------------------------------------------------------------
\* the coordinator without a tracker
\* ---------------------------------------------------------------------------
Uninitialised == tracker = "null" /\ userId = "null"

\* C30: on an uninitialised coordinator trackAction appends nothing to the
\* pending batch and sets no timer, handleIncomingEmail and handleEmailClose
\* execute no hook, return no result and change no email, and
\* respondToSuggestion sends nothing.
C30_UninitialisedHasNoEffect ==
  [][Uninitialised =>
       /\ (\E e \in EmailIds : TrackActionWithin(MaxExecEvents, "star", e)) =>
             UNCHANGED <<pendingActions, debounceTimer, timers, nextSeq, sentSeqs>>
       /\ (\E e \in EmailIds : HandleIncomingEmail(e) \/ HandleEmailClose(e)) =>
             /\ lastExec'.call = "none" /\ lastExec'.results = <<>>
             /\ UNCHANGED <<hooks, stored, unread, starred, location, tags>>
       /\ (\E sid \in SuggestionIds : RejectSuggestion(sid)) =>
             lastOp'.sent = <<>>
       /\ UNCHANGED <<pendingActions, debounceTimer, timers, sentSeqs,
                      unread, starred, location, tags>>]_vars

\* after disconnect, with a pending event, its timer and an enabled hook for
\* incoming email in place, a suggestion was rejected and nothing was sent
C30_Witness ==
  /\ Uninitialised
  /\ lastOp.op = "reject" /\ lastOp.tracker = "null" /\ lastOp.sent = <<>>
  /\ pendingActions # <<>> /\ debounceTimer # 0
  /\ \E i \in 1..Len(hooks) :
        hooks[i].enabled /\ hooks[i].trigger_event = "email_received"
  /\ lastExec.call = "none"

\* ---------------------------------------------------------------------------
\* flushes after a hook failure
\* ---------------------------------------------------------------------------
\* the latest step was a flush in which a user_action hook threw
HookFailedInFlush ==
  /\ lastExec.call = "executeActionWorkflows"
  /\ \E i \in 1..Len(lastExec.results) : ~lastExec.results[i].success

\* C31: after a flush in which a user_action hook throws the pending batch is
\* empty and the timer handle is cleared, and every event tracked after that
\* flush is flushed by a later timer: it is pending or was handed to the
\* channel client, and a pending event is eventually handed over.
C31_FlushesAfterHookFailure ==
  /\ [](HookFailedInFlush => pendingActions = <<>> /\ debounceTimer = 0)
  /\ \A k \in 1..MaxEvents :
        [](HookFailedInFlush /\ nextSeq = k
             => [](\A n \in (k + 1)..nextSeq : n \in Seqs(pendingActions) \cup sentSeqs))
  /\ \A n \in 1..MaxEvents : (n \in Seqs(pendingActions)) ~> (n \in sentSeqs)

\* after a flush in which a hook threw, a later event was tracked and flushed
C31_Witness ==
  /\ HookFailedInFlush
  /\ lastFlush.sentBefore # {}
  /\ Len(lastFlush.sent) = 1
  /\ \E i \in 1..Len(hooks) : hooks[i].function_code = "throw" /\ hooks[i].id = 1

\* ---------------------------------------------------------------------------
\* persistence of the hook list
\* ---------------------------------------------------------------------------
\* C32: the value stored under fmail_workflows, loaded again, is the hook list
\* in memory (same hooks, same order, same enabled flags and execution
\* counts, timestamps restored as dates) after every addHook, toggleHook,
\* deleteHook and execute call; a stored value that cannot be read loads as
\* the empty list.
C32_StoredListLoadsAsHookList ==
  /\ LoadHooks(stored) = hooks
  /\ stored = Unreadable => hooks = <<>>

\* two hooks are stored, the first disabled, the second executed, with the
\* dates in their stored form
C32_Witness ==
  /\ Len(hooks) = 2 /\ Len(stored) = 2
  /\ ~hooks[1].enabled /\ ~stored[1].enabled
  /\ hooks[2].execution_count = 1 /\ stored[2].execution_count = 1
  /\ hooks[2].last_executed = "date" /\ stored[2].last_executed = "iso"
  /\ hooks[1].last_executed = "undefined" /\ stored[1].last_executed = "absent"
  /\ hooks[1].created_at = "date" /\ stored[1].created_at = "iso"

\* ---------------------------------------------------------------------------
\* star and unstar tokens
\* ---------------------------------------------------------------------------
\* the tokens the latest execute call applied, result by result
RECURSIVE TokensOf(_)
TokensOf(applied) ==
  IF applied = <<>> THEN <<>> ELSE Head(applied).tokens \o TokensOf(Tail(applied))
StarTokens ==
  SelectSeq(TokensOf(lastExec.applied), LAMBDA t : t \in {Text("star"), Text("unstar")})
\* the starred flags after the store operations of the first k of them, from
\* the flags the call found
RECURSIVE StarredAfter(_)
StarredAfter(k) ==
  IF k = 0
    THEN [x \in StoreIds |->
            IF x = lastExec.email.id THEN lastExec.email.starred ELSE starred[x]]
    ELSE ToggleStarredStore(StarredAfter(k - 1), lastExec.email.id)
\* the store after store call op
StoreAfter(sr, loc, tg, ur, op) ==
  CASE op.op = "toggleStarred" ->
         [starred |-> ToggleStarredStore(sr, op.email), location |-> loc,
          tags |-> tg, unread |-> ur]
    [] op.op = "moveEmail" ->
         [starred |-> sr, location |-> MoveEmailStore(loc, op.email, op.arg),
          tags |-> tg, unread |-> ur]
    [] op.op = "deleteEmail" ->
         [starred |-> sr, location |-> DeleteEmailStore(loc, op.email),
          tags |-> tg, unread |-> ur]
    [] op.op = "addTag" ->
         [starred |-> sr, location |-> loc,
          tags |-> AddTagStore(tg, op.email, op.arg), unread |-> ur]
    [] op.op = "removeTag" ->
         [starred |-> sr, location |-> loc,
          tags |-> RemoveTagStore(tg, op.email, op.arg), unread |-> ur]
    [] op.op = "markAsRead" ->
         [starred |-> sr, location |-> loc, tags |-> tg,
          unread |-> MarkAsReadStore(Svc, ur, op.email, op.arg = "true").unread]
Once(op) == StoreAfter(starred, location, tags, unread, op)
Twice(op) ==
  StoreAfter(Once(op).starred, Once(op).location, Once(op).tags, Once(op).unread, op)

\* C33: after the applier applied a star token the email is starred and
\* after an unstar token it is not, whatever the flag was before, also when
\* two hooks of one execute call record star; and the store operation behind
\* an applied token, made twice, gives the store it gives when made once.
C33_StarTokensSetTheFlag ==
  lastExec.call # "none" =>
    /\ StarredAfter(Len(StarTokens)) = starred
    /\ \A k \in 1..Len(StarTokens) :
          StarredAfter(k)[lastExec.email.id] = (StarTokens[k] = Text("star"))
    /\ \A i \in 1..Len(lastExec.ops) : Twice(lastExec.ops[i]) = Once(lastExec.ops[i])

\* two hooks of one call recorded star for an email that was not starred,
\* and the email is not starred afterwards
C33_Witness ==
  /\ lastExec.call = "executeEmailWorkflows"
  /\ ~lastExec.email.starred
  /\ StarTokens = <<Text("star"), Text("star")>>
  /\ Len(lastExec.applied) = 2
  /\ ~starred[lastExec.email.id]

\* ---------------------------------------------------------------------------
\* the tracker after disconnect()
\* ---------------------------------------------------------------------------
\* C34: after WorkflowTracker.disconnect() the client makes no connection
\* attempt: the close disconnect() causes sets no reconnect timer, a
\* reconnect timer that was pending opens no socket, and no socket of the
\* client is connecting or open in any later state.
C34_NoReconnectAfterDisconnect ==
  /\ droppedTracker.delays = <<>>
  /\ droppedTracker.ws \notin {"connecting", "open"}

\* the socket of a tracker that was disconnected while it was open is open
\* again
C34_Witness ==
  /\ tracker = "null"
  /\ droppedTracker.ws = "open"
  /\ droppedTracker.attempts = 0

\* ---------------------------------------------------------------------------
\* a change of user with a batch pending
\* ---------------------------------------------------------------------------
\* C35: an event tracked while the coordinator was initialised for one user
\* is never transmitted through the tracker of another user, and the flush
\* that is pending at disconnect() completes and leaves the pending batch
\* empty: once its timer has fired nothing is pending on a coordinator
\* without tracker.
C35_BatchKeepsItsUser ==
  /\ \A i \in 1..Len(lastFlush.sent) :
        lastFlush.ws = "open" => lastFlush.sent[i].via = lastFlush.batch[i].user
  /\ (tracker = "null" /\ DOMAIN timers = {}) => pendingActions = <<>>

\* an event of user123 went out over the open socket of the tracker of
\* user456
C35_Witness ==
  /\ lastFlush.ws = "open"
  /\ Len(lastFlush.sent) = 1
  /\ lastFlush.batch[1].user = "user123"
  /\ lastFlush.sent[1].via = "user456"
  /\ tracker = "user456"

\* ---------------------------------------------------------------------------
\* events tracked by automation
\* ---------------------------------------------------------------------------
Quiescent == pendingActions = <<>> /\ DOMAIN timers = {}
\* the callback of the timer that is due next can run: the events it tracks
\* are within the events of one behaviour
DueTimerRuns ==
  \A h \in DOMAIN timers :
    (timers[h] = 0 /\ \A k \in DOMAIN timers : timers[k] = 0 => h <= k) =>
      ProcessPendingActions([Svc EXCEPT !.timers = ClearTimeout(@, h)], h).w.st.seq
        <= MaxEvents

\* C36: automation does not feed itself forever: the events the store tracks
\* when the applier marks an email as read stay within a bound, and after the
\* gestures and incoming emails of a behaviour the system comes to rest with
\* an empty pending batch and no timer outstanding.
C36_AutomationComesToRest ==
  /\ []DueTimerRuns
  /\ <>[]Quiescent

\* a flush ran a hook whose mark_read the store tracked as an event of its
\* own, and the system is at rest
C36_Witness ==
  /\ Quiescent
  /\ lastFlush.executed # <<>>
  /\ nextSeq > Len(lastFlush.batch) + Cardinality(lastFlush.sentBefore)
  /\ sentSeqs # 1..nextSeq

\* ---------------------------------------------------------------------------
\* one event per gesture
\* ---------------------------------------------------------------------------
\* C37: a step that appends to the pending batch appends exactly one
\* ActionEvent; the mark-as-read gesture on an unread email appends one
\* mark_read event.
C37_GestureAppendsOneEvent ==
  [][Len(pendingActions') > Len(pendingActions) =>
       Len(pendingActions') = Len(pendingActions) + 1]_vars

\* the batch after one mark-as-read gesture on an unread email
C37_Witness ==
  /\ nextSeq = 2
  /\ Len(pendingActions) = 2
  /\ \E e \in EmailIds :
       /\ ~unread[e]
       /\ \A i \in 1..2 : pendingActions[i].action = "mark_read"
                            /\ pendingActions[i].email = e

\* ---------------------------------------------------------------------------
\* what a hook is shown
\* ---------------------------------------------------------------------------
\* C38: in every execute call, for every trigger, the fields each hook is
\* shown (is_read, is_starred) are the store's values for that email when the
\* call runs, that is before the results of the call are applied.
C38_HookSeesTheMailbox ==
  [][lastExec'.call # "none" =>
       \A i \in 1..Len(lastExec'.results) :
          LET o == lastExec'.results[i].observed
          IN o.id \in DOMAIN unread =>
               /\ o.unread = unread[o.id]
               /\ o.starred = starred[o.id]]_vars

\* a flush ran a hook for an event about an email the store holds as read;
\* the hook was shown an unread email and no result changed the read flag
C38_Witness ==
  /\ lastExec.call = "executeActionWorkflows"
  /\ \A j \in 1..Len(lastExec.ops) : lastExec.ops[j].op # "markAsRead"
  /\ \E i \in 1..Len(lastExec.results) :
       LET o == lastExec.results[i].observed
       IN /\ o.id \in DOMAIN unread
          /\ o.unread
          /\ ~unread[o.id]

\* ---------------------------------------------------------------------------
\* disabled and deleted hooks
\* ---------------------------------------------------------------------------
HookIds(hs) == {hs[i].id : i \in 1..Len(hs)}
EnabledIds(hs) == {hs[i].id : i \in {j \in 1..Len(hs) : hs[j].enabled}}
\* the ids an execute call on the hook list hs can run
Runnable(hs) ==
  UNION {{hs[GetHooksForTrigger(hs, t)[k]].id : k \in DOMAIN GetHooksForTrigger(hs, t)} :
           t \in {"email_received", "email_closed", "user_action"}}
\* the hook ids of the model, one of which no hook ever has
AnyHookId == 1..(MaxExecHooks + 1)

\* toggleHook and deleteHook on the hook list of the state
TogglesAndDeletes ==
  \A id \in AnyHookId :
    /\ id \in HookIds(hooks) =>
         /\ ToggleHook(hooks, id, FALSE).success
         /\ id \notin Runnable(ToggleHook(hooks, id, FALSE).hooks)
         /\ ToggleHook(hooks, id, TRUE).success
         /\ id \in EnabledIds(ToggleHook(hooks, id, TRUE).hooks)
         /\ DeleteHook(hooks, id).success
         /\ id \notin HookIds(DeleteHook(hooks, id).hooks)
    /\ id \notin HookIds(hooks) =>
         /\ \A en \in BOOLEAN : ToggleHook(hooks, id, en) = [hooks |-> hooks, success |-> FALSE]
         /\ DeleteHook(hooks, id) = [hooks |-> hooks, success |-> FALSE]

\* an execute call runs, and returns results for, hooks that were in the list
\* and enabled when it was made, and no others
RunsEnabledHooksOnly ==
  lastExec.call # "none" =>
    /\ \A i \in 1..Len(lastExec.results) :
          lastExec.results[i].hook_id \in EnabledIds(lastExec.hooksBefore)
    /\ \A i \in 1..Len(lastExec.trace) :
          lastExec.trace[i].k = "run" =>
            lastExec.trace[i].id \in EnabledIds(lastExec.hooksBefore)

\* a hook is enabled again only by toggleHook(id, true), a deleted id never
\* comes back, and a step that leaves the hook list as it was leaves the
\* saved list as it was
StaysDisabledOrDeleted ==
  /\ \A id \in HookIds(hooks) \cap HookIds(hooks') :
        (id \notin EnabledIds(hooks) /\ id \in EnabledIds(hooks')) =>
          /\ hooks' = ToggleHook(hooks, id, TRUE).hooks
          /\ lastExec' = NoExec
  /\ \A id \in HookIds(hooks') \ HookIds(hooks) : id > nextHookId
  /\ hooks' = hooks => stored' = stored

\* C39: a disabled or deleted hook never executes: once toggleHook(id, false)
\* or deleteHook(id) returned true no execute call runs the hook or returns a
\* result for it until toggleHook(id, true); on an unknown id both return
\* false and change neither the hook list nor what is saved.
C39_DisabledHooksDoNotRun ==
  /\ [](TogglesAndDeletes /\ RunsEnabledHooksOnly)
  /\ [][StaysDisabledOrDeleted]_vars

\* an execute call was made while one of the two hooks of its trigger was
\* disabled: it ran the other hook and returned no result for the disabled one
C39_Witness ==
  /\ lastExec.call # "none"
  /\ Len(lastExec.hooksBefore) = 2
  /\ \A i \in 1..2 : lastExec.hooksBefore[i].trigger_event = lastExec.trigger
  /\ \E i \in 1..2 : ~lastExec.hooksBefore[i].enabled
  /\ Len(lastExec.results) = 1

\* ---------------------------------------------------------------------------
\* EmailSimulator
\* ---------------------------------------------------------------------------
Queued(e) == \E i \in 1..Len(pendingEmails) : pendingEmails[i] = e
Delivered(e) == \E i \in 1..Len(delivered) : delivered[i] = e

\* C40: every email in the pending queue of a simulation that was started and
\* not stopped is eventually delivered, deliveries take the head of the queue
\* and deliver no email twice, and at most one delivery timer is outstanding.
C40_QueuedEmailsAreDelivered ==
  /\ [](Cardinality(simulatorTimers) <= 1)
  /\ [][delivered' # delivered =>
          /\ pendingEmails # <<>>
          /\ ~Delivered(Head(pendingEmails))
          /\ delivered' = Append(delivered, Head(pendingEmails))
          /\ pendingEmails' = Tail(pendingEmails)]_vars
  /\ \A e \in StoreIds :
        /\ (e \in startedWith) ~> (Delivered(e) \/ ~simulationStarted)
        /\ (Queued(e) /\ simulationStarted /\ simulatorTimers # {})
              ~> (Delivered(e) \/ ~simulationStarted)

\* the queue had drained, an email was added and startSimulation was called:
\* no timer is outstanding
C40_Witness ==
  /\ delivered # <<>>
  /\ \E e \in startedWith : Queued(e)
  /\ simulatorTimers = {}
====
